---------------------------- MODULE Spec2Model ----------------------------
(***************************************************************************)
(* A model of the wasmbin codec: the module prefix, the section list with  *)
(* its order tracker, length-framed lazy blobs, LEB128 integers and the    *)
(* typed payloads of a subset of the sections.                             *)
(*                                                                         *)
(* Bytes are integers 0..255 and byte strings are sequences of them.  An   *)
(* Option is a sequence of length 0 (None) or 1 (Some).                    *)
(***************************************************************************)
EXTENDS Integers, Sequences, FiniteSets, TLC

VARIABLES
    exception_handling, \* cargo feature "exception-handling" of the build
    pc,                 \* where the caller of the library stands
    stage,              \* 1: the first module; 2: the module decoded back
    input,              \* the bytes handed to Module::decode_from
    r,                  \* what is left in the reader
    w,                  \* what the writer has received
    module,             \* the in-memory Module: [sections |-> Seq(Section)]
    orig,               \* the first module, kept to compare with the second
    last_kind,          \* SectionOrderTracker.last_kind of the running loop
    pos,                \* index of the running loop over module.sections
    result,             \* Result of the last decode / encode / visit
    last_op,            \* the last call made on the module, what it returned
    visited,            \* whether visit_mut ran over the module
    lazy,               \* a Lazy<T> in the hands of a caller
    lazy_ty,            \* its T
    other,              \* a second Lazy<T>, to compare the first with
    decodes,            \* how many times decode_raw returned Ok for lazy
    threads,            \* the threads that read lazy: where each one is
    call_ty,            \* the type a decoder is called for
    call                \* the locals of the call that is running or has returned

vars ==
    <<exception_handling, pc, stage, input, r, w, module, orig, last_kind, pos,
      result, last_op, visited, lazy, lazy_ty, other, decodes, threads, call_ty, call>>

\* What the codec of a module leaves alone.
lazyVars == <<lazy, lazy_ty, other, decodes, threads, call_ty, call>>

\* What a call on a Lazy leaves alone, but for the Lazy and the bytes written.
callVars == <<lazy_ty, threads, call_ty, call>>

moduleVars ==
    <<exception_handling, pc, stage, input, r, module, orig, last_kind, pos, visited>>

(***************************************************************************)
(* Bounds of the model.                                                    *)
(***************************************************************************)
MaxSections == 3

MaxRaw == 3

MaxCodecSections == 2

(***************************************************************************)
(* Options and results.                                                    *)
(***************************************************************************)
None == <<>>

Some(x) == <<x>>

IsSome(o) == Len(o) = 1

Unwrap(o) == o[1]

NoError == [kind |-> "None"]

Ok(v, rest) == [ok |-> TRUE, val |-> v, rest |-> rest, err |-> NoError]

Err(e) == [ok |-> FALSE, val |-> 0, rest |-> <<>>, err |-> e]

IoError == [kind |-> "Io"]

Leb128Overflow == [kind |-> "Leb128"]

UnrecognizedData == [kind |-> "UnrecognizedData"]

UnsupportedDiscriminant(ty, d) ==
    [kind |-> "UnsupportedDiscriminant", ty |-> ty, discriminant |-> d]

\* The result of a call that changes its receiver: val is the receiver as
\* the call leaves it.
VOk(v) == [ok |-> TRUE, val |-> v, err |-> NoError]

VErr(v, e) == [ok |-> FALSE, val |-> v, err |-> e]

\* body(x), with x evaluated once.
Let(x, body(_)) == CHOOSE y \in {body(v) : v \in {x}} : TRUE

\* The operator `?`: body of an Ok result, or the Err result itself.
Try(res, body(_)) == Let(res, LAMBDA v : IF v.ok THEN body(v) ELSE v)

\* An error that keeps the first four of the bytes read.
InvalidMagicShort(actual) == [kind |-> "InvalidMagic", actual |-> SubSeq(actual, 1, 4)]

InvalidMagic(actual) == [kind |-> "InvalidMagic", actual |-> actual]

SectionOrderError(prev, current) ==
    [kind |-> "SectionOutOfOrder", prev |-> prev, current |-> current]

(***************************************************************************)
(* Readers.                                                                *)
(***************************************************************************)
Min(a, b) == IF a < b THEN a ELSE b

Take(s, n) == SubSeq(s, 1, Min(n, Len(s)))

Drop(s, n) == SubSeq(s, Min(n, Len(s)) + 1, Len(s))

\* u8::decode: read_exact of one byte.
DecodeU8(s) == IF s = <<>> THEN Err(IoError) ELSE Ok(s[1], Tail(s))

\* Option<u8>::decode: None at the end of the input.
DecodeOptionU8(s) == IF s = <<>> THEN Ok(None, s) ELSE Ok(Some(s[1]), Tail(s))

(***************************************************************************)
(* LEB128.                                                                 *)
(***************************************************************************)
\* leb128::write::unsigned
RECURSIVE LebWriteUnsigned(_)
LebWriteUnsigned(v) ==
    IF v \div 128 = 0 THEN <<v % 128>>
    ELSE <<(v % 128) + 128>> \o LebWriteUnsigned(v \div 128)

\* leb128::read::unsigned behind Read::take(r, limit).  The u64 it builds is
\* kept as its 7-bit groups, least significant first: n bytes were read so
\* far and groups holds their low bits.
RECURSIVE LebReadUnsigned(_, _, _)
LebReadUnsigned(s, limit, groups) ==
    IF Len(groups) = limit \/ s = <<>> THEN Err(IoError)
    ELSE IF s[1] < 128 THEN Ok(Append(groups, s[1]), Tail(s))
    ELSE LebReadUnsigned(Tail(s), limit, Append(groups, s[1] % 128))

\* The value of 7-bit groups, least significant first.
RECURSIVE GroupsValue(_)
GroupsValue(groups) ==
    IF groups = <<>> THEN 0
    ELSE groups[1] + 128 * GroupsValue(Tail(groups))

\* u32::try_from(u64): the fifth group may hold only the bits 28..31.
FitsU32(groups) == Len(groups) < 5 \/ groups[5] < 16

U32Limit == 5

\* def_integer!(u32, unsigned)
DecodeU32(s) ==
    Try(LebReadUnsigned(s, U32Limit, <<>>), LAMBDA as_64 :
        IF ~FitsU32(as_64.val) THEN Err(Leb128Overflow)
        ELSE Ok(GroupsValue(as_64.val), as_64.rest))

EncodeU32(v) == LebWriteUnsigned(v)

\* A writer that pads every length to two bytes.
EncodeUsizePadded(n) == <<(n % 128) + 128, n \div 128>>

\* usize is encoded as u32.
EncodeUsize(n) == EncodeU32(n)

(***************************************************************************)
(* Raw blobs and strings.                                                  *)
(***************************************************************************)
\* RawBlob::encode: the byte length, then the bytes.
EncodeRawBlob(bytes) == EncodeUsize(Len(bytes)) \o bytes

\* RawBlob::decode: a u32 size, then the bytes of a reader limited to size.
\* A reader that ends early leaves taken.limit() above zero.
DecodeRawBlob(s) ==
    Try(DecodeU32(s), LAMBDA size :
        IF Len(size.rest) < size.val THEN Err(UnrecognizedData)
        ELSE Ok(Take(size.rest, size.val), Drop(size.rest, size.val)))

Cont(b) == b >= 128 /\ b <= 191

\* std::str::from_utf8: the well-formed byte sequences of UTF-8.
RECURSIVE IsUtf8(_)
IsUtf8(s) ==
    IF s = <<>> THEN TRUE
    ELSE LET b == s[1]
             n == Len(s)
         IN  IF b < 128 THEN IsUtf8(Tail(s))
             ELSE IF b >= 194 /\ b <= 223
                  THEN n >= 2 /\ Cont(s[2]) /\ IsUtf8(Drop(s, 2))
             ELSE IF b >= 224 /\ b <= 239
                  THEN /\ n >= 3
                       /\ Cont(s[2])
                       /\ (b = 224 => s[2] >= 160)
                       /\ (b = 237 => s[2] <= 159)
                       /\ Cont(s[3])
                       /\ IsUtf8(Drop(s, 3))
             ELSE IF b >= 240 /\ b <= 244
                  THEN /\ n >= 4
                       /\ Cont(s[2])
                       /\ (b = 240 => s[2] >= 144)
                       /\ (b = 244 => s[2] <= 143)
                       /\ Cont(s[3])
                       /\ Cont(s[4])
                       /\ IsUtf8(Drop(s, 4))
             ELSE FALSE

Utf8Error == [kind |-> "Utf8"]

\* A String is kept as its UTF-8 bytes.
EncodeString(str) == EncodeRawBlob(str)

DecodeString(s) ==
    Try(DecodeRawBlob(s), LAMBDA bytes :
        IF ~IsUtf8(bytes.val) THEN Err(Utf8Error) ELSE bytes)

\* Vec<u8>::decode reads the reader to its end.
DecodeBytes(s) == Ok(s, <<>>)

(***************************************************************************)
(* Section kinds and their order.                                          *)
(***************************************************************************)
\* define_sections!: the kinds in the order they are declared.
Kinds ==
    <<"Custom", "Type", "Import", "Function", "Table", "Memory", "Exception",
      "Global", "Export", "Start", "Element", "DataCount", "Code", "Data">>

\* The kinds of a build: Exception is #[cfg(feature = "exception-handling")].
KindSet(eh) == {Kinds[i] : i \in 1..Len(Kinds)} \ (IF eh THEN {} ELSE {"Exception"})

\* Kind as u8: the wire discriminant.
Discriminant(kind) ==
    CASE kind = "Custom" -> 0
      [] kind = "Type" -> 1
      [] kind = "Import" -> 2
      [] kind = "Function" -> 3
      [] kind = "Table" -> 4
      [] kind = "Memory" -> 5
      [] kind = "Exception" -> 13
      [] kind = "Global" -> 6
      [] kind = "Export" -> 7
      [] kind = "Start" -> 8
      [] kind = "Element" -> 9
      [] kind = "DataCount" -> 12
      [] kind = "Code" -> 10
      [] kind = "Data" -> 11

\* OrderedRepr::from(kind): the position in the declaration.
OrderedRepr(kind) ==
    CASE kind = "Custom" -> 0
      [] kind = "Type" -> 1
      [] kind = "Import" -> 2
      [] kind = "Function" -> 3
      [] kind = "Table" -> 4
      [] kind = "Memory" -> 5
      [] kind = "Exception" -> 6
      [] kind = "Global" -> 7
      [] kind = "Export" -> 8
      [] kind = "Start" -> 9
      [] kind = "Element" -> 10
      [] kind = "DataCount" -> 11
      [] kind = "Code" -> 12
      [] kind = "Data" -> 13

\* A comparison by the wire discriminant, which the order of the kinds must
\* be told from.
KindCmpByDiscriminant(a, b) ==
    IF Discriminant(a) < Discriminant(b) THEN "Less"
    ELSE IF Discriminant(a) = Discriminant(b) THEN "Equal"
    ELSE "Greater"

\* Ord for Kind.
KindCmp(a, b) ==
    IF OrderedRepr(a) < OrderedRepr(b) THEN "Less"
    ELSE IF OrderedRepr(a) = OrderedRepr(b) THEN "Equal"
    ELSE "Greater"

\* A tracker that lets a kind repeat.
try_add_not_strict(last, kind) ==
    IF kind = "Custom" THEN Ok(last, <<>>)
    ELSE IF KindCmp(kind, last) # "Less" THEN Ok(kind, <<>>)
    ELSE Err(SectionOrderError(last, kind))

\* A tracker that orders custom sections like the others.
try_add_custom_counts(last, kind) ==
    IF KindCmp(kind, last) = "Greater" THEN Ok(kind, <<>>)
    ELSE Err(SectionOrderError(last, kind))

\* SectionOrderTracker::try_add on a section of this kind: the new last_kind,
\* or the error.
try_add(last, kind) ==
    IF kind = "Custom" THEN Ok(last, <<>>)
    ELSE IF KindCmp(kind, last) = "Greater" THEN Ok(kind, <<>>)
    ELSE Err(SectionOrderError(last, kind))

(***************************************************************************)
(* Signed LEB128, used by BlockType for its type index.                    *)
(***************************************************************************)
I64Limit == 10

\* leb128::read::signed behind Read::take(r, limit), as 7-bit groups.
RECURSIVE LebReadSigned(_, _, _)
LebReadSigned(s, limit, groups) ==
    IF Len(groups) = limit \/ s = <<>> THEN Err(IoError)
    ELSE IF Len(groups) = 9 /\ s[1] # 0 /\ s[1] # 127
         THEN IF s[1] < 128 THEN Err(Leb128Overflow) ELSE Err(IoError)
    ELSE IF s[1] < 128 THEN Ok(Append(groups, s[1]), Tail(s))
    ELSE LebReadSigned(Tail(s), limit, Append(groups, s[1] % 128))

\* The sign of a signed LEB128 is bit 6 of its last group.
IsNegative(groups) == groups[Len(groups)] >= 64

\* u32::try_from(i64) of a value that is not negative.
FitsU32Signed(groups) ==
    /\ ~IsNegative(groups)
    /\ \A i \in 1..Len(groups) : (i > 5 => groups[i] = 0) /\ (i = 5 => groups[i] < 16)

\* leb128::write::signed of a value that is not negative.
RECURSIVE LebWriteSigned(_)
LebWriteSigned(v) ==
    IF v \div 128 = 0 /\ v % 128 < 64 THEN <<v % 128>>
    ELSE <<(v % 128) + 128>> \o LebWriteSigned(v \div 128)

(***************************************************************************)
(* Value types, block types and instructions.  The instructions modelled   *)
(* are the ones that drive the depth counter, a few plain ones and the     *)
(* opcodes the format leaves unassigned.                                   *)
(***************************************************************************)
OP_CODE_BLOCK_START == 2

OP_CODE_LOOP_START == 3

OP_CODE_IF_START == 4

OP_CODE_END == 11

OP_CODE_EMPTY_BLOCK == 64

\* RefType::maybe_decode_with_discriminant
MaybeRefType(d) ==
    CASE d = 112 -> Some("Func")
      [] d = 111 -> Some("Extern")
      [] OTHER -> None

\* A catch-all variant that takes every discriminant left over.
MaybeValueTypeAbsorbing(d) == Some([vt |-> "Ref", ref |-> "Extern"])

\* ValueType::maybe_decode_with_discriminant: Ref is the catch-all variant.
MaybeValueType(d) ==
    CASE d = 123 -> Some([vt |-> "V128"])
      [] d = 124 -> Some([vt |-> "F64"])
      [] d = 125 -> Some([vt |-> "F32"])
      [] d = 126 -> Some([vt |-> "I64"])
      [] d = 127 -> Some([vt |-> "I32"])
      [] OTHER -> IF IsSome(MaybeRefType(d))
                  THEN Some([vt |-> "Ref", ref |-> Unwrap(MaybeRefType(d))])
                  ELSE None

DecodeValueType(s) ==
    Try(DecodeU8(s), LAMBDA d :
        Let(MaybeValueType(d.val), LAMBDA ty :
            IF IsSome(ty) THEN Ok(Unwrap(ty), d.rest)
            ELSE Err(UnsupportedDiscriminant("ValueType", d.val))))

EncodeValueType(v) ==
    CASE v.vt = "V128" -> <<123>>
      [] v.vt = "F64" -> <<124>>
      [] v.vt = "F32" -> <<125>>
      [] v.vt = "I64" -> <<126>>
      [] v.vt = "I32" -> <<127>>
      [] v.vt = "Ref" -> IF v.ref = "Func" THEN <<112>> ELSE <<111>>

\* bool through BoolRepr
DecodeBool(s) ==
    Try(DecodeU8(s), LAMBDA d :
        IF d.val = 0 THEN Ok(FALSE, d.rest)
        ELSE IF d.val = 1 THEN Ok(TRUE, d.rest)
        ELSE Err(UnsupportedDiscriminant("BoolRepr", d.val)))

EncodeBool(b) == IF b THEN <<1>> ELSE <<0>>

\* Decode for BlockType
DecodeBlockType(s) ==
    Try(DecodeU8(s), LAMBDA d :
        Let(MaybeValueType(d.val), LAMBDA ty :
            IF d.val = OP_CODE_EMPTY_BLOCK THEN Ok([bt |-> "Empty"], d.rest)
            ELSE IF IsSome(ty) THEN Ok([bt |-> "Value", ty |-> Unwrap(ty)], d.rest)
            ELSE Try(LebReadSigned(s, I64Limit, <<>>), LAMBDA as_i64 :
                     IF ~FitsU32Signed(as_i64.val) THEN Err(Leb128Overflow)
                     ELSE Ok([bt |-> "MultiValue", index |-> GroupsValue(as_i64.val)],
                             as_i64.rest))))

\* Encode for BlockType
EncodeBlockType(b) ==
    CASE b.bt = "Empty" -> <<OP_CODE_EMPTY_BLOCK>>
      [] b.bt = "Value" -> EncodeValueType(b.ty)
      [] b.bt = "MultiValue" -> LebWriteSigned(b.index)

\* Opcodes no variant of Instruction declares.
UnassignedOpCodes == {6, 7, 8, 9, 10, 39, 255}

\* Instruction::decode_with_discriminant
DecodeInstructionWith(op, s) ==
    CASE op = 0 -> Ok([op |-> "Unreachable"], s)
      [] op = 1 -> Ok([op |-> "Nop"], s)
      [] op \in {OP_CODE_BLOCK_START, OP_CODE_LOOP_START, OP_CODE_IF_START} ->
            Try(DecodeBlockType(s), LAMBDA ty :
                Ok([op |-> CASE op = OP_CODE_BLOCK_START -> "BlockStart"
                             [] op = OP_CODE_LOOP_START -> "LoopStart"
                             [] op = OP_CODE_IF_START -> "IfStart",
                    ty |-> ty.val], ty.rest))
      [] op = 5 -> Ok([op |-> "IfElse"], s)
      [] op = OP_CODE_END -> Ok([op |-> "End"], s)
      [] op = 15 -> Ok([op |-> "Return"], s)
      [] op = 16 -> Try(DecodeU32(s), LAMBDA f : Ok([op |-> "Call", func |-> f.val], f.rest))
      [] op = 26 -> Ok([op |-> "Drop"], s)
      [] op \in UnassignedOpCodes -> Err(UnsupportedDiscriminant("Instruction", op))

\* The derived Encode of Instruction: the discriminant, then the fields.
EncodeInstruction(i) ==
    CASE i.op = "Unreachable" -> <<0>>
      [] i.op = "Nop" -> <<1>>
      [] i.op = "BlockStart" -> <<OP_CODE_BLOCK_START>> \o EncodeBlockType(i.ty)
      [] i.op = "LoopStart" -> <<OP_CODE_LOOP_START>> \o EncodeBlockType(i.ty)
      [] i.op = "IfStart" -> <<OP_CODE_IF_START>> \o EncodeBlockType(i.ty)
      [] i.op = "IfElse" -> <<5>>
      [] i.op = "End" -> <<OP_CODE_END>>
      [] i.op = "Return" -> <<15>>
      [] i.op = "Call" -> <<16>> \o EncodeU32(i.func)
      [] i.op = "Drop" -> <<26>>

\* A decoder that ends the expression at the first END, whatever the depth.
RECURSIVE DecodeExpressionFlat(_, _, _)
DecodeExpressionFlat(s, depth, res) ==
    Try(DecodeU8(s), LAMBDA op_code :
        IF op_code.val = OP_CODE_END THEN Ok(res, op_code.rest)
        ELSE Try(DecodeInstructionWith(op_code.val, op_code.rest), LAMBDA instr :
                 DecodeExpressionFlat(instr.rest, depth, Append(res, instr.val))))

\* A decoder that only keeps whether a block is open.
RECURSIVE DecodeExpressionShallow(_, _, _)
DecodeExpressionShallow(s, depth, res) ==
    Try(DecodeU8(s), LAMBDA op_code :
        IF op_code.val = OP_CODE_END /\ depth = 0 THEN Ok(res, op_code.rest)
        ELSE Try(DecodeInstructionWith(op_code.val, op_code.rest), LAMBDA instr :
                 DecodeExpressionShallow(
                     instr.rest,
                     IF op_code.val \in {OP_CODE_BLOCK_START, OP_CODE_LOOP_START,
                                         OP_CODE_IF_START}
                     THEN 1
                     ELSE IF op_code.val = OP_CODE_END THEN 0
                     ELSE depth,
                     Append(res, instr.val))))

\* Decode for Vec<Instruction>: the loop with its depth counter.
RECURSIVE DecodeExpressionLoop(_, _, _)
DecodeExpressionLoop(s, depth, res) ==
    Try(DecodeU8(s), LAMBDA op_code :
        IF op_code.val = OP_CODE_END /\ depth = 0 THEN Ok(res, op_code.rest)
        ELSE Try(DecodeInstructionWith(op_code.val, op_code.rest), LAMBDA instr :
                 DecodeExpressionLoop(
                     instr.rest,
                     IF op_code.val \in {OP_CODE_BLOCK_START, OP_CODE_LOOP_START,
                                         OP_CODE_IF_START}
                     THEN depth + 1
                     ELSE IF op_code.val = OP_CODE_END THEN depth - 1
                     ELSE depth,
                     Append(res, instr.val))))

DecodeExpression(s) == DecodeExpressionLoop(s, 0, <<>>)

\* Encode for [Instruction]: the instructions, then END.
RECURSIVE EncodeInstructions(_)
EncodeInstructions(e) ==
    IF e = <<>> THEN <<>> ELSE EncodeInstruction(e[1]) \o EncodeInstructions(Tail(e))

\* An encoder that writes no terminator.
EncodeExpressionNoEnd(expr) == EncodeInstructions(expr)

EncodeExpression(e) == EncodeInstructions(e) \o <<OP_CODE_END>>

(***************************************************************************)
(* Types.  A type is a record [c |-> constructor, of |-> parameter].       *)
(***************************************************************************)
T(c) == [c |-> c, of |-> <<>>]

TVec(t) == [c |-> "Vec", of |-> t]

TBlob(t) == [c |-> "Blob", of |-> t]

TLazy(t) == [c |-> "Lazy", of |-> t]

TNameMap(v) == [c |-> "NameMap", of |-> v]

TNameAssoc(v) == [c |-> "NameAssoc", of |-> v]

\* define_sections!: the payload type of each kind.  The items of the kinds
\* outside PayloadKinds are not modelled: of those only the empty list is.
PayloadType(kind) ==
    CASE kind = "Custom" -> T("CustomSection")
      [] kind = "Type" -> TVec(T("FuncType"))
      [] kind = "Import" -> TVec(T("Import"))
      [] kind = "Function" -> TVec(T("u32"))
      [] kind = "Table" -> TVec(T("TableType"))
      [] kind = "Memory" -> TVec(T("MemType"))
      [] kind = "Exception" -> TVec(T("Exception"))
      [] kind = "Global" -> TVec(T("Global"))
      [] kind = "Export" -> TVec(T("Export"))
      [] kind = "Start" -> T("u32")
      [] kind = "Element" -> TVec(T("Element"))
      [] kind = "DataCount" -> T("u32")
      [] kind = "Code" -> TVec(TBlob(T("FuncBody")))
      [] kind = "Data" -> TVec(T("Data"))

PayloadKinds == {"Custom", "Function", "Global", "Start", "DataCount", "Code"}

\* The names define_custom_sections! dispatches on, as UTF-8.
NameOfName == <<110, 97, 109, 101>>

NameOfBuildId == <<98, 117, 105, 108, 100, 95, 105, 100>>

NameOfSourceMappingUrl ==
    <<115, 111, 117, 114, 99, 101, 77, 97, 112, 112, 105, 110, 103, 85, 82, 76>>

NameOfExternalDebugInfo ==
    <<101, 120, 116, 101, 114, 110, 97, 108, 95, 100, 101, 98, 117, 103, 95, 105,
      110, 102, 111>>

NameOfProducers == <<112, 114, 111, 100, 117, 99, 101, 114, 115>>

\* Lazy::from_raw
from_raw(raw) == [status |-> "FromInput", raw |-> raw, parsed |-> None]

\* From<T> for Lazy<T>
LazyFrom(value) == [status |-> "Output", value |-> value]

\* LazyMut::new
LazyMutNew(in) == [input |-> Some(in), output |-> None]

\* LazyMut::new_from_output
new_from_output(out) == [input |-> None, output |-> Some(out)]

(***************************************************************************)
(* Decoders of the typed values.                                           *)
(***************************************************************************)
\* NameSubSection: the payload type behind each discriminant.
SubSectionVariant(d) ==
    CASE d = 0 -> Some("Module")
      [] d = 1 -> Some("Func")
      [] d = 2 -> Some("Local")
      [] OTHER -> None

SubSectionDiscriminant(variant) ==
    CASE variant = "Module" -> 0
      [] variant = "Func" -> 1
      [] variant = "Local" -> 2

SubSectionType(variant) ==
    CASE variant = "Module" -> T("String")
      [] variant = "Func" -> TNameMap(T("String"))
      [] variant = "Local" -> TNameMap(TNameMap(T("String")))

\* define_custom_sections!: the variant a name selects.  "producers" is
\* left out of the model.
CustomVariant(name) ==
    CASE name = NameOfName -> "Name"
      [] name = NameOfExternalDebugInfo -> "ExternalDebugInfo"
      [] name = NameOfSourceMappingUrl -> "SourceMappingUrl"
      [] name = NameOfBuildId -> "BuildId"
      [] name \notin {NameOfName, NameOfExternalDebugInfo, NameOfSourceMappingUrl,
                      NameOfBuildId, NameOfProducers} -> "Other"

CustomName(variant) ==
    CASE variant = "Name" -> NameOfName
      [] variant = "ExternalDebugInfo" -> NameOfExternalDebugInfo
      [] variant = "SourceMappingUrl" -> NameOfSourceMappingUrl
      [] variant = "BuildId" -> NameOfBuildId

CustomDataType(variant) ==
    CASE variant = "Name" -> TLazy(TVec(T("NameSubSection")))
      [] variant = "ExternalDebugInfo" -> TLazy(T("String"))
      [] variant = "SourceMappingUrl" -> TLazy(T("String"))
      [] variant = "BuildId" -> T("Bytes")
      [] variant = "Other" -> T("Bytes")

RECURSIVE Decode(_, _)
RECURSIVE DecodeItems(_, _, _, _)
RECURSIVE DecodeNameSubSections(_, _)

\* Decode of each type: the derived decoders read the fields in order.
Decode(ty, s) ==
    CASE ty.c = "u32" -> DecodeU32(s)
      [] ty.c = "String" -> DecodeString(s)
      [] ty.c = "Bytes" -> DecodeBytes(s)
      [] ty.c = "ValueType" -> DecodeValueType(s)
      [] ty.c = "bool" -> DecodeBool(s)
      [] ty.c = "Expression" -> DecodeExpression(s)
      [] ty.c = "GlobalType" ->
            Try(Decode(T("ValueType"), s), LAMBDA value_type :
            Try(Decode(T("bool"), value_type.rest), LAMBDA mutable :
                Ok([value_type |-> value_type.val, mutable |-> mutable.val], mutable.rest)))
      [] ty.c = "Global" ->
            Try(Decode(T("GlobalType"), s), LAMBDA gty :
            Try(Decode(T("Expression"), gty.rest), LAMBDA init :
                Ok([ty |-> gty.val, init |-> init.val], init.rest)))
      [] ty.c = "Locals" ->
            Try(Decode(T("u32"), s), LAMBDA repeat :
            Try(Decode(T("ValueType"), repeat.rest), LAMBDA lty :
                Ok([repeat |-> repeat.val, ty |-> lty.val], lty.rest)))
      [] ty.c = "FuncBody" ->
            Try(Decode(TVec(T("Locals")), s), LAMBDA locals :
            Try(Decode(T("Expression"), locals.rest), LAMBDA expr :
                Ok([locals |-> locals.val, expr |-> expr.val], expr.rest)))
      [] ty.c = "NameAssoc" ->
            Try(Decode(T("u32"), s), LAMBDA index :
            Try(Decode(ty.of, index.rest), LAMBDA value :
                Ok([index |-> index.val, value |-> value.val], value.rest)))
      [] ty.c = "NameMap" ->
            Try(Decode(TVec(TNameAssoc(ty.of)), s), LAMBDA items :
                Ok([items |-> items.val], items.rest))
      [] ty.c = "NameSubSection" ->
            Try(DecodeU8(s), LAMBDA d :
                IF ~IsSome(SubSectionVariant(d.val))
                THEN Err(UnsupportedDiscriminant("NameSubSection", d.val))
                ELSE Try(Decode(TBlob(SubSectionType(Unwrap(SubSectionVariant(d.val)))),
                                d.rest),
                         LAMBDA blob :
                             Ok([variant |-> Unwrap(SubSectionVariant(d.val)),
                                 blob |-> blob.val], blob.rest)))
      [] ty.c = "CustomSection" ->
            Try(Decode(T("String"), s), LAMBDA name :
            Try(Decode(CustomDataType(CustomVariant(name.val)), name.rest), LAMBDA data :
                IF CustomVariant(name.val) = "Other"
                THEN Ok([variant |-> "Other", name |-> name.val, data |-> data.val],
                        data.rest)
                ELSE Ok([variant |-> CustomVariant(name.val), data |-> data.val],
                        data.rest)))
      [] ty.c = "Blob" ->
            Try(DecodeRawBlob(s), LAMBDA contents :
                Ok(LazyMutNew(contents.val), contents.rest))
      [] ty.c = "Lazy" -> Ok(from_raw(s), <<>>)
      [] ty.c = "Vec" ->
            IF ty.of.c = "NameSubSection" THEN DecodeNameSubSections(s, <<>>)
            ELSE Try(Decode(T("u32"), s), LAMBDA count :
                     DecodeItems(ty.of, count.val, count.rest, <<>>))

\* DecodeAsIter of a countable type: count more items follow.
DecodeItems(ty, count, s, items) ==
    IF count = 0 THEN Ok(items, s)
    ELSE Try(Decode(ty, s), LAMBDA item :
             DecodeItems(ty, count - 1, item.rest, Append(items, item.val)))

\* Decode for Vec<NameSubSection>: sub-sections up to the end of the reader.
DecodeNameSubSections(s, sub) ==
    IF s = <<>> THEN Ok(sub, s)
    ELSE Try(Decode(T("NameSubSection"), s), LAMBDA item :
             DecodeNameSubSections(item.rest, Append(sub, item.val)))

\* A decode_raw that lets bytes follow the value.
decode_raw_lenient(ty, raw) == Decode(ty, raw)

\* decode_raw and BlobTransform::lazy_transform: the value must use up the
\* bytes.
decode_raw(ty, raw) ==
    Try(Decode(ty, raw), LAMBDA value :
        IF value.rest # <<>> THEN Err(UnrecognizedData) ELSE value)

(***************************************************************************)
(* Encoders of the typed values.                                           *)
(***************************************************************************)
RECURSIVE Encode(_, _)
RECURSIVE EncodeItems(_, _)

\* An encoder that writes the value again as soon as it was decoded.
EncodeLazyDecoded(ty, v) ==
    IF v.status = "FromInput"
    THEN IF IsSome(v.parsed) THEN Encode(ty, Unwrap(v.parsed)) ELSE v.raw
    ELSE Encode(ty, v.value)

\* Encode for Lazy<T>: the raw bytes while it is FromInput.
EncodeLazy(ty, v) ==
    IF v.status = "FromInput" THEN v.raw ELSE Encode(ty, v.value)

Encode(ty, v) ==
    CASE ty.c = "u32" -> EncodeU32(v)
      [] ty.c = "String" -> EncodeString(v)
      [] ty.c = "Bytes" -> v
      [] ty.c = "ValueType" -> EncodeValueType(v)
      [] ty.c = "Expression" -> EncodeExpression(v)
      [] ty.c = "bool" -> EncodeBool(v)
      [] ty.c = "GlobalType" ->
            Encode(T("ValueType"), v.value_type) \o Encode(T("bool"), v.mutable)
      [] ty.c = "Global" -> Encode(T("GlobalType"), v.ty) \o Encode(T("Expression"), v.init)
      [] ty.c = "Locals" -> Encode(T("u32"), v.repeat) \o Encode(T("ValueType"), v.ty)
      [] ty.c = "FuncBody" ->
            Encode(TVec(T("Locals")), v.locals) \o Encode(T("Expression"), v.expr)
      [] ty.c = "NameAssoc" -> Encode(T("u32"), v.index) \o Encode(ty.of, v.value)
      [] ty.c = "NameMap" -> Encode(TVec(TNameAssoc(ty.of)), v.items)
      [] ty.c = "NameSubSection" ->
            <<SubSectionDiscriminant(v.variant)>>
                \o Encode(TBlob(SubSectionType(v.variant)), v.blob)
      [] ty.c = "CustomSection" ->
            IF v.variant = "Other" THEN Encode(T("String"), v.name) \o v.data
            ELSE Encode(T("String"), CustomName(v.variant))
                     \o Encode(CustomDataType(v.variant), v.data)
      \* Encode for Blob<T>: the input as it came while there is one.
      [] ty.c = "Blob" ->
            IF IsSome(v.input) THEN EncodeRawBlob(Unwrap(v.input))
            ELSE EncodeRawBlob(Encode(ty.of, Unwrap(v.output)))
      [] ty.c = "Lazy" -> EncodeLazy(ty.of, v)
      [] ty.c = "Vec" ->
            IF ty.of.c = "NameSubSection" THEN EncodeItems(ty.of, v)
            ELSE EncodeUsize(Len(v)) \o EncodeItems(ty.of, v)

EncodeItems(ty, items) ==
    IF items = <<>> THEN <<>>
    ELSE Encode(ty, items[1]) \o EncodeItems(ty, Tail(items))

(***************************************************************************)
(* Lazy and LazyMut: reading.                                              *)
(***************************************************************************)
\* LazyMut::try_output: the memoized output, or the transform of the input.
try_output(ty, lm) ==
    IF IsSome(lm.output) THEN Ok(Unwrap(lm.output), <<>>)
    ELSE decode_raw(ty, Unwrap(lm.input))

\* Lazy::try_contents: the owned or memoized value, or the decoded bytes.
try_contents(ty, this) ==
    IF this.status = "Output" THEN Ok(this.value, <<>>)
    ELSE IF IsSome(this.parsed) THEN Ok(Unwrap(this.parsed), <<>>)
    ELSE decode_raw(ty, this.raw)

\* A try_contents that decodes and leaves the OnceCell empty.
try_contents_no_memo(ty, this) == this

\* Lazy::try_contents leaves the decoded value in the OnceCell.
try_contents_memo(ty, this) ==
    IF this.status = "FromInput" /\ ~IsSome(this.parsed)
    THEN Let(decode_raw(ty, this.raw), LAMBDA value :
             IF value.ok THEN [this EXCEPT !.parsed = Some(value.val)] ELSE this)
    ELSE this

\* Lazy::try_as_raw: the raw bytes, or the value as the error.
try_as_raw(this) ==
    IF this.status = "FromInput" THEN Ok(this.raw, <<>>)
    ELSE [ok |-> FALSE, val |-> this.value, rest |-> <<>>, err |-> NoError]

\* A mutable access that gives up the raw bytes before it decodes them.
try_contents_mut_drops_raw(ty, this) ==
    IF this.status = "FromInput"
    THEN Let(try_contents(ty, this), LAMBDA value :
             IF value.ok THEN VOk(LazyFrom(value.val))
             ELSE VErr(LazyFrom(<<>>), value.err))
    ELSE VOk(this)

\* A mutable access that decodes and keeps the raw bytes.
try_contents_mut_keeps_raw(ty, this) ==
    IF this.status = "FromInput"
    THEN Let(try_contents(ty, this), LAMBDA value :
             IF value.ok
             THEN VOk([status |-> "FromInput", raw |-> this.raw,
                       parsed |-> Some(value.val), value |-> value.val])
             ELSE VErr(this, value.err))
    ELSE VOk(this)

\* Lazy::try_contents_mut: the Lazy as the call leaves it.  The value moves
\* out of the OnceCell, or is decoded; a decoding error returns before the
\* status is assigned.
try_contents_mut(ty, this) ==
    IF this.status = "FromInput"
    THEN IF IsSome(this.parsed) THEN VOk(LazyFrom(Unwrap(this.parsed)))
         ELSE Let(decode_raw(ty, this.raw), LAMBDA value :
                  IF value.ok THEN VOk(LazyFrom(value.val)) ELSE VErr(this, value.err))
    ELSE VOk(this)

(***************************************************************************)
(* Equality: derived PartialEq, but for Lazy and LazyMut.                  *)
(***************************************************************************)
RECURSIVE Eq(_, _, _)
RECURSIVE EqItems(_, _, _)

\* PartialEq for Lazy takes the fast path: both hold the same raw bytes.
EqFastPath(a, b) == a.status = "FromInput" /\ b.status = "FromInput" /\ a.raw = b.raw

\* A comparison that trusts the raw bytes whenever both sides have them.
EqLazyByRaw(ty, a, b) ==
    IF a.status = "FromInput" /\ b.status = "FromInput" THEN a.raw = b.raw
    ELSE Let(try_contents(ty, a), LAMBDA x :
         Let(try_contents(ty, b), LAMBDA y :
             x.ok /\ y.ok /\ Eq(ty, x.val, y.val)))

\* PartialEq for Lazy<T>
EqLazy(ty, a, b) ==
    \/ EqFastPath(a, b)
    \/ Let(try_contents(ty, a), LAMBDA x :
       Let(try_contents(ty, b), LAMBDA y :
           x.ok /\ y.ok /\ Eq(ty, x.val, y.val)))

Eq(ty, a, b) ==
    CASE ty.c = "Blob" ->
            \/ IsSome(a.input) /\ IsSome(b.input) /\ a.input = b.input
            \/ Let(try_output(ty.of, a), LAMBDA x :
               Let(try_output(ty.of, b), LAMBDA y :
                   x.ok /\ y.ok /\ Eq(ty.of, x.val, y.val)))
      [] ty.c = "Lazy" -> EqLazy(ty.of, a, b)
      [] ty.c = "Vec" -> Len(a) = Len(b) /\ EqItems(ty.of, a, b)
      [] ty.c = "NameSubSection" ->
            a.variant = b.variant /\ Eq(TBlob(SubSectionType(a.variant)), a.blob, b.blob)
      [] ty.c = "CustomSection" ->
            /\ a.variant = b.variant
            /\ (a.variant = "Other" => a.name = b.name)
            /\ Eq(CustomDataType(a.variant), a.data, b.data)
      [] ty.c = "Section" ->
            a.kind = b.kind /\ Eq(TBlob(PayloadType(a.kind)), a.blob, b.blob)
      [] ty.c = "Module" -> Eq(TVec(T("Section")), a.sections, b.sections)
      [] OTHER -> a = b

EqItems(ty, a, b) ==
    \A i \in 1..Len(a) : Eq(ty, a[i], b[i])

\* The Lazy a as a == b leaves it: off the fast path, try_contents ran on it.
\* The cells of the blobs inside the value are not tracked.
EqMemo(ty, a, b) == IF EqFastPath(a, b) THEN a ELSE try_contents_memo(ty, a)

(***************************************************************************)
(* Hash: what a value feeds to the hasher.  Option is fed as a sequence of *)
(* no or one element.                                                      *)
(***************************************************************************)
RECURSIVE Hash(_, _)

\* A hash of the bytes a value encodes to.
HashOfEncoding(ty, v) == Encode(ty, v)

Hash(ty, v) ==
    CASE ty.c = "Lazy" ->
            \* self.try_contents().ok().hash(state)
            Let(try_contents(ty.of, v), LAMBDA x :
                IF x.ok THEN <<Hash(ty.of, x.val)>> ELSE <<>>)
      [] ty.c = "Blob" ->
            \* self.try_output().ok().hash(h)
            Let(try_output(ty.of, v), LAMBDA x :
                IF x.ok THEN <<Hash(ty.of, x.val)>> ELSE <<>>)
      [] ty.c = "Vec" -> [i \in 1..Len(v) |-> Hash(ty.of, v[i])]
      [] ty.c = "NameSubSection" ->
            <<SubSectionDiscriminant(v.variant),
              Hash(TBlob(SubSectionType(v.variant)), v.blob)>>
      [] OTHER -> v

\* Whether a read of the Lazy runs decode_raw to a value: 1 if so.
Decoding(ty, this) ==
    IF this.status = "FromInput" /\ ~IsSome(this.parsed) /\ decode_raw(ty, this.raw).ok
    THEN 1 ELSE 0

\* The count of decodes after one more read; 2 stands for more than one.
Tally(n, ty, this) == Min(n + Decoding(ty, this), 2)

(***************************************************************************)
(* visit with a callback that matches no node: the value as the traversal  *)
(* leaves it, with the values it decoded kept next to the bytes they came  *)
(* from.                                                                   *)
(***************************************************************************)
RECURSIVE Visit(_, _)
RECURSIVE VisitItems(_, _, _)

\* The children of a Blob<T>: the contents are borrowed (LazyMut::try_output),
\* which decodes them and keeps the input, and are then visited.
VisitBlob(ty, v) ==
    Let(try_output(ty, v), LAMBDA out :
        IF ~out.ok THEN VErr(v, out.err)
        ELSE Let(Visit(ty, out.val), LAMBDA child :
                 [child EXCEPT !.val = [v EXCEPT !.output = Some(child.val)]]))

\* Lazy::visit_children: try_contents, then the children.
VisitLazy(ty, v) ==
    Let(try_contents(ty, v), LAMBDA contents :
        IF ~contents.ok THEN VErr(v, contents.err)
        ELSE Let(Visit(ty, contents.val), LAMBDA child :
                 [child EXCEPT !.val = IF v.status = "FromInput"
                                       THEN [v EXCEPT !.parsed = Some(child.val)]
                                       ELSE [v EXCEPT !.value = child.val]]))

Visit(ty, v) ==
    CASE ty.c = "Blob" -> VisitBlob(ty.of, v)
      [] ty.c = "Lazy" -> VisitLazy(ty.of, v)
      [] ty.c = "Vec" -> VisitItems(ty.of, v, 1)
      [] ty.c = "NameSubSection" ->
            Let(Visit(TBlob(SubSectionType(v.variant)), v.blob), LAMBDA blob :
                [blob EXCEPT !.val = [v EXCEPT !.blob = blob.val]])
      [] ty.c = "CustomSection" ->
            \* Custom section decoding errors must be ignored.
            VOk([v EXCEPT !.data = Visit(CustomDataType(v.variant), v.data).val])
      [] ty.c = "Section" ->
            Let(Visit(TBlob(PayloadType(v.kind)), v.blob), LAMBDA blob :
                [blob EXCEPT !.val = [v EXCEPT !.blob = blob.val]])
      [] ty.c = "Module" ->
            Let(Visit(TVec(T("Section")), v.sections), LAMBDA sections :
                [sections EXCEPT !.val = [v EXCEPT !.sections = sections.val]])
      [] OTHER -> VOk(v)

\* impl_visit_for_iter!: the items in order, up to the first error.
VisitItems(ty, items, i) ==
    IF i > Len(items) THEN VOk(items)
    ELSE Let(Visit(ty, items[i]), LAMBDA item :
             IF ~item.ok THEN VErr([items EXCEPT ![i] = item.val], item.err)
             ELSE VisitItems(ty, [items EXCEPT ![i] = item.val], i + 1))

(***************************************************************************)
(* visit_mut with a callback that matches no node: what it does to the     *)
(* lazies of a value.  The result holds the value as the traversal left    *)
(* it, also when it stopped at a lazy that does not decode.                *)
(***************************************************************************)
\* A traversal that borrows every lazy as visit does, without writing to it.
VisitMutBorrowsShared(ty, v) == Visit(ty, v)

RECURSIVE VisitMut(_, _)
RECURSIVE VisitItemsMut(_, _, _)

\* The children of a Blob<T>: the contents are borrowed mutably, which decodes
\* them and drops the input (LazyMut::try_output_mut), and are then visited.
VisitBlobMut(ty, v) ==
    Let(try_output(ty, v), LAMBDA out :
        IF ~out.ok THEN VErr(v, out.err)
        ELSE Let(VisitMut(ty, out.val), LAMBDA child :
                 [child EXCEPT !.val = new_from_output(child.val)]))

\* Visit::visit_mut with a callback that matches no node: the value as the
\* traversal leaves it.
VisitMut(ty, v) ==
    CASE ty.c = "Blob" -> VisitBlobMut(ty.of, v)
      [] ty.c = "Lazy" ->
            \* Lazy::visit_children_mut: try_contents_mut, then the children.
            Let(try_contents_mut(ty.of, v), LAMBDA contents :
                IF ~contents.ok THEN contents
                ELSE Let(VisitMut(ty.of, contents.val.value), LAMBDA child :
                         [child EXCEPT !.val = LazyFrom(child.val)]))
      [] ty.c = "Vec" -> VisitItemsMut(ty.of, v, 1)
      [] ty.c = "NameSubSection" ->
            Let(VisitMut(TBlob(SubSectionType(v.variant)), v.blob), LAMBDA blob :
                [blob EXCEPT !.val = [v EXCEPT !.blob = blob.val]])
      [] ty.c = "CustomSection" ->
            \* Custom section decoding errors must be ignored.
            VOk([v EXCEPT !.data = VisitMut(CustomDataType(v.variant), v.data).val])
      [] ty.c = "Section" ->
            Let(VisitMut(TBlob(PayloadType(v.kind)), v.blob), LAMBDA blob :
                [blob EXCEPT !.val = [v EXCEPT !.blob = blob.val]])
      [] ty.c = "Module" ->
            Let(VisitMut(TVec(T("Section")), v.sections), LAMBDA sections :
                [sections EXCEPT !.val = [v EXCEPT !.sections = sections.val]])
      [] OTHER -> VOk(v)

\* impl_visit_for_iter!: the items in order, up to the first error.
VisitItemsMut(ty, items, i) ==
    IF i > Len(items) THEN VOk(items)
    ELSE Let(VisitMut(ty, items[i]), LAMBDA item :
             IF ~item.ok THEN VErr([items EXCEPT ![i] = item.val], item.err)
             ELSE VisitItemsMut(ty, [items EXCEPT ![i] = item.val], i + 1))

(***************************************************************************)
(* Sections and the module.                                                *)
(***************************************************************************)
MAGIC_AND_VERSION == <<0, 97, 115, 109, 1, 0, 0, 0>>

\* TryFrom<u8> for Kind, in a build with or without exception handling.
KindTryFrom(d, eh) ==
    IF \E k \in KindSet(eh) : Discriminant(k) = d
    THEN Some(CHOOSE k \in KindSet(eh) : Discriminant(k) = d)
    ELSE None

\* Section::decode_with_discriminant
DecodeSectionWith(d, s, eh) ==
    Let(KindTryFrom(d, eh), LAMBDA kind :
        IF ~IsSome(kind) THEN Err(UnsupportedDiscriminant("Section", d))
        ELSE Try(Decode(TBlob(PayloadType(Unwrap(kind))), s), LAMBDA blob :
                 Ok([kind |-> Unwrap(kind), blob |-> blob.val], blob.rest)))

\* The derived Encode of Section: the discriminant, then the blob.
EncodeSection(section) ==
    <<Discriminant(section.kind)>> \o Encode(TBlob(PayloadType(section.kind)), section.blob)

\* From<payload> for Section
SectionFrom(kind, value) == [kind |-> kind, blob |-> new_from_output(value)]

\* The value a caller builds a section of a kind from: an empty list, index 0,
\* or a custom section with an empty name.
DefaultPayload(kind) ==
    CASE kind = "Custom" -> [variant |-> "Other", name |-> <<>>, data |-> <<>>]
      [] kind \in {"Start", "DataCount"} -> 0
      [] OTHER -> <<>>

NoOp == [op |-> "none", kind |-> "Custom", index |-> 0, inserted |-> FALSE]

NoResult == [ok |-> TRUE, val |-> 0, rest |-> <<>>, err |-> NoError]

EmptyModule == [sections |-> <<>>]

\* The Result of a call that changes its receiver.
LazyResult(res) == IF res.ok THEN NoResult ELSE Err(res.err)

\* No thread is started.
NoThreads == <<>>

\* The module is decoded and encoded with no Lazy of the caller's in play.
\* No call is running.
NoCall == [op |-> "none"]

NoLazy ==
    /\ lazy = from_raw(<<>>)
    /\ lazy_ty = T("String")
    /\ other = from_raw(<<>>)
    /\ decodes = 0
    /\ threads = NoThreads
    /\ call_ty = T("String")
    /\ call = NoCall

(***************************************************************************)
(* Module::decode_from, one loop iteration at a time.                      *)
(***************************************************************************)
\* MagicAndVersion::decode, then the start of Vec<Section>::decode.
DecodeMagic ==
    /\ pc = "decode"
    /\ LET actual == Take(r, 8)
       IN  IF Len(r) < 8
           THEN /\ result' = Err(IoError)
                /\ pc' = "decode_failed"
                /\ UNCHANGED r
           ELSE IF actual # MAGIC_AND_VERSION
           THEN /\ result' = Err(InvalidMagic(actual))
                /\ pc' = "decode_failed"
                /\ r' = Drop(r, 8)
           ELSE /\ result' = NoResult
                /\ pc' = "decode_sections"
                /\ r' = Drop(r, 8)
    /\ module' = EmptyModule
    /\ last_kind' = "Custom"
    /\ last_op' = [NoOp EXCEPT !.op = "decode_from"]
    /\ UNCHANGED <<lazyVars, exception_handling, stage, input, w, orig, pos, visited>>

\* One iteration of the loop of Vec<Section>::decode.
DecodeSection ==
    /\ pc = "decode_sections"
    /\ r # <<>>
    /\ \E section \in {DecodeSectionWith(Unwrap(DecodeOptionU8(r).val),
                                          DecodeOptionU8(r).rest, exception_handling)} :
       LET added == try_add(last_kind, section.val.kind)
       IN  IF ~section.ok
           THEN /\ result' = section
                /\ pc' = "decode_failed"
                /\ UNCHANGED <<r, module, last_kind>>
           ELSE IF ~added.ok
           THEN /\ result' = added
                /\ pc' = "decode_failed"
                /\ r' = section.rest
                /\ UNCHANGED <<module, last_kind>>
           ELSE /\ r' = section.rest
                /\ last_kind' = added.val
                /\ module' = [sections |-> Append(module.sections, section.val)]
                /\ UNCHANGED <<result, pc>>
    /\ UNCHANGED <<lazyVars, exception_handling, stage, input, w, orig, pos, last_op, visited>>

\* The end of the input ends the loop.
DecodeEnd ==
    /\ pc = "decode_sections"
    /\ r = <<>>
    /\ pc' = "ready"
    /\ result' = NoResult
    /\ UNCHANGED <<lazyVars, exception_handling, stage, input, r, w, module, orig, last_kind,
                   pos, last_op, visited>>

(***************************************************************************)
(* Module::encode_into, one loop iteration at a time.                      *)
(***************************************************************************)
\* MagicAndVersion::encode, then the start of [Section]::encode.
EncodeMagic ==
    /\ pc = "ready"
    /\ stage = 1
    /\ pc' = "encode_sections"
    /\ w' = MAGIC_AND_VERSION
    /\ last_kind' = "Custom"
    /\ pos' = 1
    /\ last_op' = [NoOp EXCEPT !.op = "encode_into"]
    /\ UNCHANGED <<lazyVars, exception_handling, stage, input, r, module, orig, result, visited>>

\* An iteration that writes the section without asking the tracker.
EncodeSectionUntracked ==
    /\ pc = "encode_sections"
    /\ pos <= Len(module.sections)
    /\ w' = w \o EncodeSection(module.sections[pos])
    /\ pos' = pos + 1
    /\ UNCHANGED <<lazyVars, exception_handling, pc, stage, input, r, module, orig, last_kind,
                   result, last_op, visited>>

\* An iteration that writes the section and then asks the tracker.
EncodeSectionWriteFirst ==
    /\ pc = "encode_sections"
    /\ pos <= Len(module.sections)
    /\ w' = w \o EncodeSection(module.sections[pos])
    /\ \E added \in {try_add(last_kind, module.sections[pos].kind)} :
          IF ~added.ok
          THEN /\ result' = added
               /\ pc' = "encode_failed"
               /\ UNCHANGED <<last_kind, pos>>
          ELSE /\ last_kind' = added.val
               /\ pos' = pos + 1
               /\ UNCHANGED <<result, pc>>
    /\ UNCHANGED <<lazyVars, exception_handling, stage, input, r, module, orig, last_op, visited>>

\* One iteration of the loop of [Section]::encode.
EncodeSectionStep ==
    /\ pc = "encode_sections"
    /\ pos <= Len(module.sections)
    /\ LET section == module.sections[pos]
           added == try_add(last_kind, section.kind)
       IN  IF ~added.ok
           THEN /\ result' = added
                /\ pc' = "encode_failed"
                /\ UNCHANGED <<w, last_kind, pos>>
           ELSE /\ w' = w \o EncodeSection(section)
                /\ last_kind' = added.val
                /\ pos' = pos + 1
                /\ UNCHANGED <<result, pc>>
    /\ UNCHANGED <<lazyVars, exception_handling, stage, input, r, module, orig, last_op, visited>>

EncodeEnd ==
    /\ pc = "encode_sections"
    /\ pos > Len(module.sections)
    /\ pc' = "encoded"
    /\ result' = NoResult
    /\ UNCHANGED <<lazyVars, exception_handling, stage, input, r, w, module, orig, last_kind,
                   pos, last_op, visited>>

(***************************************************************************)
(* What a caller does with the public list Module::sections.               *)
(***************************************************************************)
\* module.sections.push(payload.into())
PushSection(kind) ==
    /\ pc = "ready"
    /\ stage = 1
    /\ Len(module.sections) < MaxSections
    /\ module' = [sections |-> Append(module.sections, SectionFrom(kind, DefaultPayload(kind)))]
    /\ last_op' = [op |-> "push", kind |-> kind, index |-> Len(module.sections) + 1,
                   inserted |-> TRUE]
    /\ UNCHANGED <<lazyVars, exception_handling, pc, stage, input, r, w, orig, last_kind, pos,
                   result, visited>>

\* A search that stops only at a section of the wanted kind, and so inserts
\* at the end.
FindIndexOrEnd(sections, kind, i) ==
    IF \E j \in i..Len(sections) : sections[j].kind = kind
    THEN [index |-> CHOOSE j \in i..Len(sections) : sections[j].kind = kind,
          insert |-> FALSE]
    ELSE [index |-> Len(sections) + 1, insert |-> TRUE]

RECURSIVE FindIndex(_, _, _)
\* The loop of find_or_insert_std_section: the first section whose kind is
\* not less than the wanted one.  Indices are counted from 1.
FindIndex(sections, kind, i) ==
    IF i > Len(sections) THEN [index |-> Len(sections) + 1, insert |-> TRUE]
    ELSE CASE KindCmp(sections[i].kind, kind) = "Less" -> FindIndex(sections, kind, i + 1)
           [] KindCmp(sections[i].kind, kind) = "Equal" -> [index |-> i, insert |-> FALSE]
           [] KindCmp(sections[i].kind, kind) = "Greater" -> [index |-> i, insert |-> TRUE]

\* Vec::insert
Insert(s, i, x) == SubSeq(s, 1, i - 1) \o <<x>> \o SubSeq(s, i, Len(s))

\* Module::find_or_insert_std_section with a factory giving the default payload.
find_or_insert_std_section(kind) ==
    /\ pc = "ready"
    /\ stage = 1
    /\ \E found \in {FindIndex(module.sections, kind, 1)} :
           /\ found.insert => Len(module.sections) < MaxSections
           /\ module' =
                IF found.insert
                THEN [sections |-> Insert(module.sections, found.index,
                                          SectionFrom(kind, DefaultPayload(kind)))]
                ELSE module
           /\ last_op' = [op |-> "find_or_insert", kind |-> kind, index |-> found.index,
                          inserted |-> found.insert]
    /\ UNCHANGED <<lazyVars, exception_handling, pc, stage, input, r, w, orig, last_kind, pos,
                   result, visited>>

(***************************************************************************)
(* The specification of section order on decode: modules decoded from      *)
(* sections of every kind byte, then encoded again.                        *)
(***************************************************************************)
RECURSIVE Flatten(_)
SeqsUpTo(S, n) == UNION {[1..m -> S] : m \in 0..n}

Flatten(ss) == IF ss = <<>> THEN <<>> ELSE Head(ss) \o Flatten(Tail(ss))

\* A section of a kind byte whose payload is one zero byte: an empty list,
\* the index 0, or a custom section with an empty name and no data.
GenericSection(d) == <<d, 1, 0>>

SectionBytes == 0..14

OrderInputs ==
    {MAGIC_AND_VERSION \o Flatten([i \in DOMAIN ds |-> GenericSection(ds[i])]) :
        ds \in SeqsUpTo(SectionBytes, MaxSections)}

InitFrom(bytes) ==
    /\ pc = "decode"
    /\ stage = 1
    /\ input = bytes
    /\ r = bytes
    /\ w = <<>>
    /\ module = EmptyModule
    /\ orig = EmptyModule
    /\ last_kind = "Custom"
    /\ pos = 1
    /\ result = NoResult
    /\ last_op = NoOp
    /\ visited = FALSE
    /\ NoLazy

InitOrder ==
    /\ exception_handling \in BOOLEAN
    /\ \E bytes \in OrderInputs : InitFrom(bytes)

NextOrder ==
    \/ DecodeMagic
    \/ DecodeSection
    \/ DecodeEnd
    \/ EncodeMagic
    \/ EncodeSectionStep
    \/ EncodeEnd

SpecOrder == InitOrder /\ [][NextOrder]_vars

(***************************************************************************)
(* The specification of modules built in memory: the caller pushes         *)
(* sections in any order onto an empty module, queries it and encodes it.  *)
(***************************************************************************)
InitBuild ==
    /\ exception_handling \in BOOLEAN
    /\ pc = "ready"
    /\ stage = 1
    /\ input = <<>>
    /\ r = <<>>
    /\ w = <<>>
    /\ module = EmptyModule
    /\ orig = EmptyModule
    /\ last_kind = "Custom"
    /\ pos = 1
    /\ result = NoResult
    /\ last_op = NoOp
    /\ visited = FALSE
    /\ NoLazy

NextBuild ==
    \/ \E kind \in KindSet(exception_handling) : PushSection(kind)
    \/ \E kind \in KindSet(exception_handling) \ {"Custom"} : find_or_insert_std_section(kind)
    \/ EncodeMagic
    \/ EncodeSectionStep
    \/ EncodeEnd

SpecBuild == InitBuild /\ [][NextBuild]_vars

(***************************************************************************)
(* The specification of the round trips: a module decoded from bytes or    *)
(* built in memory is, or is not, visited mutably, then encoded, and the   *)
(* bytes written are decoded again.                                        *)
(***************************************************************************)
\* visit_mut over the module with a callback that matches no node, which
\* decodes every lazy part: unlazify of the tests.
VisitMutModule ==
    /\ pc = "ready"
    /\ ~visited
    /\ \E res \in {VisitMut(T("Module"), module)} :
          /\ module' = res.val
          /\ result' = LazyResult(res)
          /\ pc' = IF res.ok THEN "ready" ELSE "visit_failed"
    /\ visited' = TRUE
    /\ last_op' = [NoOp EXCEPT !.op = "visit_mut"]
    /\ UNCHANGED <<lazyVars, exception_handling, stage, input, r, w, orig, last_kind, pos>>

\* visit over the module with a callback that matches no node: what
\* include_raw of the dump example asks for.
VisitModule ==
    /\ pc = "ready"
    /\ ~visited
    /\ \E res \in {Visit(T("Module"), module)} :
          /\ module' = res.val
          /\ result' = LazyResult(res)
          /\ pc' = IF res.ok THEN "ready" ELSE "visit_failed"
    /\ visited' = TRUE
    /\ last_op' = [NoOp EXCEPT !.op = "visit"]
    /\ UNCHANGED <<lazyVars, exception_handling, stage, input, r, w, orig, last_kind, pos>>

\* Module::decode_from on the bytes that encode_into wrote.
DecodeAgain ==
    /\ pc = "encoded"
    /\ stage = 1
    /\ stage' = 2
    /\ orig' = module
    /\ r' = w
    /\ pc' = "decode"
    /\ visited' = FALSE
    /\ UNCHANGED <<lazyVars, exception_handling, input, w, module, last_kind, pos, result,
                   last_op>>

\* Sections as bytes: the kind, the length, the payload.
SectionCatalogue ==
    << <<3, 1, 0>>,                               \* Function: no items
       <<3, 2, 1, 0>>,                            \* Function: [0]
       <<3, 3, 1, 128, 0>>,                       \* Function: [0], a padded index
       <<3, 129, 0, 0>>,                          \* Function: a padded length
       <<3, 1, 1>>,                               \* Function: an item is missing
       <<6, 5, 1, 127, 0, 1, 11>>,                \* Global: i32, [Nop]
       <<6, 8, 1, 127, 1, 2, 64, 1, 11, 11>>,     \* Global: mut i32, [Block, Nop, End]
       <<8, 1, 0>>,                               \* Start: 0
       <<10, 4, 1, 2, 0, 11>>,                    \* Code: one empty body
       <<10, 7, 1, 5, 1, 1, 127, 1, 11>>,         \* Code: a local and [Nop]
       <<10, 5, 1, 3, 0, 11, 0>>,                 \* Code: a byte after the body
       <<0, 3, 1, 97, 7>>,                        \* Custom "a": data 07
       <<0, 5, 4, 110, 97, 109, 101>>,            \* Custom "name": no sub-sections
       <<0, 9, 4, 110, 97, 109, 101, 0, 2, 1, 97>>,       \* "name": module name "a"
       <<0, 10, 4, 110, 97, 109, 101, 0, 3, 129, 0, 97>>, \* the same, padded
       <<0, 7, 4, 110, 97, 109, 101, 0, 0>>,      \* "name": an empty module name blob
       <<0, 7, 4, 110, 97, 109, 101, 9, 0>>,      \* "name": an unknown sub-section
       <<0, 2, 1, 255>> >>                        \* Custom: a name that is not UTF-8

\* Inputs without the prefix: too short for it, or eight other bytes, with
\* and without a section after them.
BadInputs ==
    {<<0, 97, 115>>, <<0, 97, 115, 109, 2, 0, 0, 0>>, <<0, 97, 115, 109, 1, 0, 0>>,
     <<1, 97, 115, 109, 1, 0, 0, 0>>, <<0, 97, 115, 109, 1, 0, 0, 1>>,
     <<0, 97, 115, 109, 2, 0, 0, 0>> \o SectionCatalogue[1],
     <<0, 0, 0, 0, 0, 0, 0, 0>> \o SectionCatalogue[1]}

CodecInputs ==
    {MAGIC_AND_VERSION \o Flatten([i \in DOMAIN ix |-> SectionCatalogue[ix[i]]]) :
        ix \in SeqsUpTo(1..Len(SectionCatalogue), MaxCodecSections)} \cup BadInputs

I32Const == [value_type |-> [vt |-> "I32"], mutable |-> FALSE]

GlobalOf(init) == SectionFrom("Global", <<[ty |-> I32Const, init |-> init]>>)

\* Sections as a caller builds them.
BuiltCatalogue ==
    << SectionFrom("Function", <<0>>),
       GlobalOf(<<[op |-> "Nop"]>>),
       GlobalOf(<<[op |-> "BlockStart", ty |-> [bt |-> "Empty"]], [op |-> "End"]>>),
       GlobalOf(<<[op |-> "End"]>>),
       GlobalOf(<<[op |-> "BlockStart", ty |-> [bt |-> "Empty"]]>>),
       SectionFrom("Start", 0),
       SectionFrom("Code", <<new_from_output([locals |-> <<>>, expr |-> <<[op |-> "Nop"]>>])>>),
       SectionFrom("Custom", [variant |-> "Other", name |-> <<97>>, data |-> <<7>>]),
       SectionFrom("Custom", [variant |-> "Other", name |-> NameOfName, data |-> <<>>]),
       SectionFrom("Custom", [variant |-> "Name", data |-> LazyFrom(<<>>)]) >>

BuiltModules ==
    {[sections |-> [i \in DOMAIN ix |-> BuiltCatalogue[ix[i]]]] :
        ix \in SeqsUpTo(1..Len(BuiltCatalogue), MaxCodecSections)}

InitCodec ==
    /\ exception_handling = TRUE
    /\ stage = 1
    /\ w = <<>>
    /\ orig = EmptyModule
    /\ last_kind = "Custom"
    /\ pos = 1
    /\ result = NoResult
    /\ last_op = NoOp
    /\ visited = FALSE
    /\ NoLazy
    /\ \/ /\ pc = "decode"
          /\ input \in CodecInputs
          /\ r = input
          /\ module = EmptyModule
       \/ /\ pc = "ready"
          /\ input = <<>>
          /\ r = <<>>
          /\ module \in BuiltModules

NextCodec ==
    \/ DecodeMagic
    \/ DecodeSection
    \/ DecodeEnd
    \/ VisitMutModule
    \/ VisitModule
    \/ EncodeMagic
    \/ EncodeSectionStep
    \/ EncodeEnd
    \/ DecodeAgain

SpecCodec == InitCodec /\ [][NextCodec]_vars

(***************************************************************************)
(* A Lazy<T> in the hands of a caller: T is String, as in the custom       *)
(* sections of debug information, or Vec<NameSubSection>, as in the name   *)
(* section.                                                                *)
(***************************************************************************)
LazyTypes == <<T("String"), TVec(T("NameSubSection"))>>

LazyBytes == {0, 1, 2, 97, 129, 255}

\* The values a caller writes through the mutable reference.
NewContents(ty) ==
    IF ty = T("String") THEN <<<<>>, <<97>>>>
    ELSE <<<<>>, <<[variant |-> "Module", blob |-> new_from_output(<<97>>)]>>>>

LazyOp(op) == [NoOp EXCEPT !.op = op]

LazyTryAsRaw ==
    /\ pc = "lazy"
    /\ result' = try_as_raw(lazy)
    /\ last_op' = LazyOp("try_as_raw")
    /\ UNCHANGED <<moduleVars, w, lazy, other, decodes, callVars>>

LazyTryContents ==
    /\ pc = "lazy"
    /\ result' = try_contents(lazy_ty, lazy)
    /\ lazy' = try_contents_memo(lazy_ty, lazy)
    /\ decodes' = Tally(decodes, lazy_ty, lazy)
    /\ last_op' = LazyOp("try_contents")
    /\ UNCHANGED <<moduleVars, w, other, callVars>>

LazyTryContentsMut ==
    /\ pc = "lazy"
    /\ \E res \in {try_contents_mut(lazy_ty, lazy)} :
          /\ lazy' = res.val
          /\ result' = LazyResult(res)
    /\ decodes' = Tally(decodes, lazy_ty, lazy)
    /\ last_op' = LazyOp("try_contents_mut")
    /\ UNCHANGED <<moduleVars, w, other, callVars>>

\* *lazy.try_contents_mut()? = value
LazyWrite(value) ==
    /\ pc = "lazy"
    /\ \E res \in {try_contents_mut(lazy_ty, lazy)} :
          /\ lazy' = IF res.ok THEN [res.val EXCEPT !.value = value] ELSE res.val
          /\ result' = LazyResult(res)
    /\ decodes' = Tally(decodes, lazy_ty, lazy)
    /\ last_op' = LazyOp("write")
    /\ UNCHANGED <<moduleVars, w, other, callVars>>

\* visit_mut on the Lazy with a callback that matches no node.
LazyVisitMut ==
    /\ pc = "lazy"
    /\ \E res \in {VisitMut(TLazy(lazy_ty), lazy)} :
          /\ lazy' = res.val
          /\ result' = LazyResult(res)
    /\ decodes' = Tally(decodes, lazy_ty, lazy)
    /\ last_op' = LazyOp("visit_mut")
    /\ UNCHANGED <<moduleVars, w, other, callVars>>

LazyEncode ==
    /\ pc = "lazy"
    /\ w' = Encode(TLazy(lazy_ty), lazy)
    /\ result' = NoResult
    /\ last_op' = LazyOp("encode")
    /\ UNCHANGED <<moduleVars, lazy, other, decodes, callVars>>

\* a == b on the Lazy and the other one; the bool is kept as <<bool>>.
LazyEq ==
    /\ pc = "lazy"
    /\ result' = Ok(<<Eq(TLazy(lazy_ty), lazy, other)>>, <<>>)
    /\ lazy' = EqMemo(lazy_ty, lazy, other)
    /\ other' = EqMemo(lazy_ty, other, lazy)
    /\ decodes' = IF EqFastPath(lazy, other) THEN decodes ELSE Tally(decodes, lazy_ty, lazy)
    /\ last_op' = LazyOp("eq")
    /\ UNCHANGED <<moduleVars, w, callVars>>

\* lazy.hash(&mut hasher)
LazyHash ==
    /\ pc = "lazy"
    /\ result' = Ok(Hash(TLazy(lazy_ty), lazy), <<>>)
    /\ lazy' = try_contents_memo(lazy_ty, lazy)
    /\ decodes' = Tally(decodes, lazy_ty, lazy)
    /\ last_op' = LazyOp("hash")
    /\ UNCHANGED <<moduleVars, w, other, callVars>>

\* visit on the Lazy with a callback that matches no node: it borrows what
\* visit_mut borrows, and fails where visit_mut fails.
LazyVisit ==
    /\ pc = "lazy"
    /\ result' = LazyResult(VisitMut(TLazy(lazy_ty), lazy))
    /\ lazy' = try_contents_memo(lazy_ty, lazy)
    /\ decodes' = Tally(decodes, lazy_ty, lazy)
    /\ last_op' = LazyOp("visit")
    /\ UNCHANGED <<moduleVars, w, other, callVars>>

InitLazy ==
    /\ exception_handling = TRUE
    /\ pc = "lazy"
    /\ stage = 1
    /\ input = <<>>
    /\ r = <<>>
    /\ w = <<>>
    /\ module = EmptyModule
    /\ orig = EmptyModule
    /\ last_kind = "Custom"
    /\ pos = 1
    /\ result = NoResult
    /\ last_op = NoOp
    /\ visited = FALSE
    /\ decodes = 0
    /\ threads = NoThreads
    /\ call_ty = T("String")
    /\ call = NoCall
    /\ \E i \in 1..Len(LazyTypes) : lazy_ty = LazyTypes[i]
    /\ \E raw \in SeqsUpTo(LazyBytes, MaxRaw) : lazy = from_raw(raw)
    /\ other = lazy

(***************************************************************************)
(* Two Lazy<T> of one type, compared and hashed.                           *)
(***************************************************************************)
\* Raw bytes of each type: equal values in different bytes, bytes that do
\* not decode, and bytes whose value holds a blob that does not decode.
PairRaws(ty) ==
    IF ty = T("String")
    THEN << <<0>>, <<1, 97>>, <<129, 0, 97>>, <<1, 98>>, <<>>, <<1>>, <<1, 255>> >>
    ELSE << <<>>, <<0, 2, 1, 97>>, <<0, 3, 129, 0, 97>>, <<0, 130, 0, 1, 97>>,
            <<0, 0>>, <<0, 1, 1>>, <<9, 0>>, <<0>>,
            <<0, 0, 1, 0>>, <<1, 0, 0, 0>>, <<2, 0, 2, 0>> >>

\* The states a Lazy of these bytes is left in by no call, by try_contents
\* and by try_contents_mut.
PairStates(ty) ==
    [i \in 1..(3 * Len(PairRaws(ty))) |->
        LET raw == PairRaws(ty)[((i - 1) \div 3) + 1]
        IN  CASE i % 3 = 1 -> from_raw(raw)
              [] i % 3 = 2 -> try_contents_memo(ty, from_raw(raw))
              [] OTHER -> try_contents_mut(ty, from_raw(raw)).val]

InitPair ==
    /\ exception_handling = TRUE
    /\ pc = "lazy"
    /\ stage = 1
    /\ input = <<>>
    /\ r = <<>>
    /\ w = <<>>
    /\ module = EmptyModule
    /\ orig = EmptyModule
    /\ last_kind = "Custom"
    /\ pos = 1
    /\ result = NoResult
    /\ last_op = NoOp
    /\ visited = FALSE
    /\ decodes = 0
    /\ threads = NoThreads
    /\ call_ty = T("String")
    /\ call = NoCall
    /\ \E i \in 1..Len(LazyTypes) :
          /\ lazy_ty = LazyTypes[i]
          /\ \E j \in 1..Len(PairRaws(LazyTypes[i])) :
                lazy = from_raw(PairRaws(LazyTypes[i])[j])
          /\ \E k \in 1..Len(PairStates(LazyTypes[i])) :
                other = PairStates(LazyTypes[i])[k]

NextPair ==
    \/ LazyTryContents
    \/ LazyTryContentsMut
    \/ LazyEq
    \/ LazyHash

SpecPair == InitPair /\ [][NextPair]_vars

NextLazy ==
    \/ LazyTryAsRaw
    \/ LazyTryContents
    \/ LazyTryContentsMut
    \/ \E i \in 1..Len(NewContents(lazy_ty)) : LazyWrite(NewContents(lazy_ty)[i])
    \/ LazyVisitMut
    \/ LazyEncode
    \/ LazyEq
    \/ LazyHash
    \/ LazyVisit

SpecLazy == InitLazy /\ [][NextLazy]_vars

(***************************************************************************)
(* One Lazy<T> read from input, shared by threads that call try_contents.  *)
(* parsed is a once_cell::sync::OnceCell: get_or_try_init returns the      *)
(* value of a complete cell, and otherwise lets one caller at a time run   *)
(* the initializer while the others wait; the value is written to the      *)
(* slot before the cell is marked complete, and a failed initializer       *)
(* leaves the cell incomplete for the next caller.                         *)
(***************************************************************************)
MaxThreads == 2

Idle == [pc |-> "idle", ret |-> NoResult]

\* threads.state is the state of the OnceCell, threads.torn holds while a
\* write of the slot is under way, threads.calls[t] is the call of thread t.
SharedThreads == [state |-> "INCOMPLETE", torn |-> FALSE,
                  calls |-> [t \in 1..MaxThreads |-> Idle]]

\* A cell that lets a caller initialize it whenever it is not complete.
AcquireUnlocked(state) == state # "COMPLETE"

\* The caller becomes the initializer of an incomplete cell that nobody
\* is initializing.
Acquire(state) == state = "INCOMPLETE"

\* OnceCell::get: the slot of a complete cell.
Get == IF threads.state = "COMPLETE" THEN lazy.parsed ELSE None

At(t, at, ret) == [threads EXCEPT !.calls[t] = [pc |-> at, ret |-> ret]]

\* try_contents: the fast path of get_or_try_init.
SharedGet(t) ==
    /\ pc = "shared"
    /\ threads.calls[t].pc \in {"idle", "done"}
    /\ threads' = IF threads.state = "COMPLETE"
                  THEN At(t, "done", Ok(Unwrap(lazy.parsed), <<>>))
                  ELSE At(t, "initialize", NoResult)
    /\ UNCHANGED <<moduleVars, w, result, last_op, lazy, lazy_ty, other, decodes, call_ty, call>>

\* The slow path: take the cell, or find it complete; a caller that finds
\* it running waits.
SharedAcquire(t) ==
    /\ pc = "shared"
    /\ threads.calls[t].pc = "initialize"
    /\ Acquire(threads.state) \/ threads.state = "COMPLETE"
    /\ threads' = IF Acquire(threads.state)
                  THEN [At(t, "running", NoResult) EXCEPT !.state = "RUNNING"]
                  ELSE At(t, "done", Ok(Unwrap(lazy.parsed), <<>>))
    /\ UNCHANGED <<moduleVars, w, result, last_op, lazy, lazy_ty, other, decodes, call_ty, call>>

\* The initializer: decode_raw(raw).
SharedDecode(t) ==
    /\ pc = "shared"
    /\ threads.calls[t].pc = "running"
    /\ \E value \in {decode_raw(lazy_ty, lazy.raw)} :
          threads' = At(t, IF value.ok THEN "store" ELSE "release", value)
    /\ UNCHANGED <<moduleVars, w, result, last_op, lazy, lazy_ty, other, decodes, call_ty, call>>

\* The write of the value to the slot begins.
SharedStoreBegin(t) ==
    /\ pc = "shared"
    /\ threads.calls[t].pc = "store"
    /\ threads' = [At(t, "storing", threads.calls[t].ret) EXCEPT !.torn = TRUE]
    /\ decodes' = Min(decodes + 1, 2)
    /\ UNCHANGED <<moduleVars, w, result, last_op, lazy, lazy_ty, other, call_ty, call>>

\* The write of the value to the slot ends.
SharedStoreEnd(t) ==
    /\ pc = "shared"
    /\ threads.calls[t].pc = "storing"
    /\ lazy' = [lazy EXCEPT !.parsed = Some(threads.calls[t].ret.val)]
    /\ threads' = [At(t, "release", threads.calls[t].ret) EXCEPT !.torn = FALSE]
    /\ UNCHANGED <<moduleVars, w, result, last_op, lazy_ty, other, decodes, call_ty, call>>

\* The initializer leaves: the cell is complete if it wrote a value and
\* incomplete if it failed, and the call returns.
SharedRelease(t) ==
    /\ pc = "shared"
    /\ threads.calls[t].pc = "release"
    /\ threads' = [At(t, "done", threads.calls[t].ret) EXCEPT
                      !.state = IF threads.calls[t].ret.ok THEN "COMPLETE"
                                ELSE "INCOMPLETE"]
    /\ UNCHANGED <<moduleVars, w, result, last_op, lazy, lazy_ty, other, decodes, call_ty, call>>

InitShared ==
    /\ exception_handling = TRUE
    /\ pc = "shared"
    /\ stage = 1
    /\ input = <<>>
    /\ r = <<>>
    /\ w = <<>>
    /\ module = EmptyModule
    /\ orig = EmptyModule
    /\ last_kind = "Custom"
    /\ pos = 1
    /\ result = NoResult
    /\ last_op = NoOp
    /\ visited = FALSE
    /\ decodes = 0
    /\ threads = SharedThreads
    /\ call_ty = T("String")
    /\ call = NoCall
    /\ \E i \in 1..Len(LazyTypes) :
          /\ lazy_ty = LazyTypes[i]
          /\ \E j \in 1..Len(PairRaws(LazyTypes[i])) :
                lazy = from_raw(PairRaws(LazyTypes[i])[j])
    /\ other = lazy

NextShared ==
    \E t \in 1..MaxThreads :
        \/ SharedGet(t)
        \/ SharedAcquire(t)
        \/ SharedDecode(t)
        \/ SharedStoreBegin(t)
        \/ SharedStoreEnd(t)
        \/ SharedRelease(t)

SpecShared == InitShared /\ [][NextShared]_vars

(***************************************************************************)
(* The decoders of single values, called on bounded inputs: expressions    *)
(* and function bodies, blobs, and the enums that are decoded by their     *)
(* discriminant.                                                           *)
(***************************************************************************)
MaxExpr == 5

MaxDepth == 3

MaxBlob == 4

\* Instructions as bytes: Nop, BLOCK(empty), END, Call of function 11 and a
\* BLOCK of type index 11: an END byte is an opcode or an immediate.
ExprTokens ==
    {<<1>>, <<OP_CODE_BLOCK_START, OP_CODE_EMPTY_BLOCK>>, <<OP_CODE_END>>,
     <<16, OP_CODE_END>>, <<OP_CODE_BLOCK_START, OP_CODE_END>>}

BlobBytes == {0, 1, 2, 3, 97}

RECURSIVE Repeat(_, _)
Repeat(s, n) == IF n = 0 THEN <<>> ELSE s \o Repeat(s, n - 1)

\* The bytes of a function body without locals whose expression is n
\* BLOCK(empty) and n END: the END that ends the expression follows them.
DeepBody(n) ==
    <<0>> \o Repeat(<<OP_CODE_BLOCK_START, OP_CODE_EMPTY_BLOCK>>, n)
          \o Repeat(<<OP_CODE_END>>, n) \o <<OP_CODE_END>>

\* The enums with a derived maybe_decode_with_discriminant.
DerivedEnums == {"RefType", "ValueType", "NameSubSection", "Instruction"}

\* maybe_decode_with_discriminant: the variant the discriminant selects
\* and its fields, the catch-all variant, or None with the reader as it was.
MaybeDecodeWith(ty, d, s) ==
    CASE ty.c = "RefType" -> Ok(MaybeRefType(d), s)
      [] ty.c = "ValueType" -> Ok(MaybeValueType(d), s)
      [] ty.c = "NameSubSection" ->
            IF ~IsSome(SubSectionVariant(d)) THEN Ok(None, s)
            ELSE Try(Decode(TBlob(SubSectionType(Unwrap(SubSectionVariant(d)))), s),
                     LAMBDA blob :
                         Ok(Some([variant |-> Unwrap(SubSectionVariant(d)),
                                  blob |-> blob.val]), blob.rest))
      [] ty.c = "Instruction" ->
            IF d \in UnassignedOpCodes THEN Ok(None, s)
            ELSE Try(DecodeInstructionWith(d, s), LAMBDA instr :
                     Ok(Some(instr.val), instr.rest))

\* decode_with_discriminant: None becomes unsupported_discriminant::<Self>.
DecodeWith(ty, d, s) ==
    IF ty.c = "Section" THEN DecodeSectionWith(d, s, exception_handling)
    ELSE Try(MaybeDecodeWith(ty, d, s), LAMBDA res :
             IF IsSome(res.val) THEN Ok(Unwrap(res.val), res.rest)
             ELSE Err(UnsupportedDiscriminant(ty.c, d)))

\* Decode::decode; decode_without_discriminant for RefType and Instruction.
DecodeValue(ty, s) ==
    IF ty.c \in {"RefType", "Instruction"}
    THEN Try(DecodeU8(s), LAMBDA d : DecodeWith(ty, d.val, d.rest))
    ELSE Decode(ty, s)

\* Discriminants of each enum, declared and not, and bytes to follow them.
EnumInputs(ty) ==
    CASE ty.c = "RefType" ->
            {<<d>> \o s : d \in {0, 110, 111, 112, 113, 127}, s \in {<<>>, <<1>>}}
      [] ty.c = "ValueType" ->
            {<<d>> \o s : d \in {0, 64, 110, 111, 112, 113, 122, 123, 124, 125, 126,
                                 127, 128, 255},
                          s \in {<<>>, <<1>>}}
      [] ty.c = "bool" -> {<<d>> \o s : d \in {0, 1, 2, 255}, s \in {<<>>, <<1>>}}
      [] ty.c = "NameSubSection" ->
            {<<d>> \o s : d \in {0, 1, 2, 3, 4, 9, 255},
                          s \in {<<>>, <<0>>, <<2, 1, 97>>, <<1, 0, 7>>}}
      [] ty.c = "Instruction" ->
            {<<d>> \o s : d \in {0, 1, OP_CODE_BLOCK_START, OP_CODE_LOOP_START,
                                 OP_CODE_IF_START, 5, OP_CODE_END, 15, 16, 26}
                                    \cup UnassignedOpCodes,
                          s \in {<<>>, <<OP_CODE_EMPTY_BLOCK>>, <<1, 7>>}}
      [] ty.c = "Section" ->
            {<<d>> \o s : d \in 0..15 \cup {255}, s \in {<<>>, <<0>>, <<1, 0, 7>>}}

DecodeTypes ==
    <<T("Expression"), T("FuncBody"), TBlob(T("String")), T("RefType"),
      T("ValueType"), T("bool"), T("NameSubSection"), T("Instruction"), T("Section")>>

DecodeInputs(ty) ==
    CASE ty.c = "Expression" -> {Flatten(ts) : ts \in SeqsUpTo(ExprTokens, MaxExpr)}
      [] ty.c = "FuncBody" ->
            {DeepBody(n) : n \in 0..MaxDepth}
                \cup {Take(DeepBody(n), Len(DeepBody(n)) - 1) : n \in 0..MaxDepth}
      [] ty.c = "Blob" -> SeqsUpTo(BlobBytes, MaxBlob)
      [] OTHER -> EnumInputs(ty)

\* The types with a Decode and an Encode among the ones called.
Codable == {"Expression", "FuncBody", "Blob", "ValueType", "bool", "NameSubSection"}

decodeVars ==
    <<exception_handling, stage, input, module, orig, last_kind, pos, last_op,
      visited, lazy_ty, other, decodes, threads, call_ty, call>>

\* T::decode(&mut input)
DecodeCall ==
    /\ pc = "decode"
    /\ call_ty.c # "Section"
    /\ result' = DecodeValue(call_ty, input)
    /\ r' = result'.rest
    /\ pc' = "decoded"
    /\ UNCHANGED <<decodeVars, w, lazy>>

\* T::maybe_decode_with_discriminant(discriminant, &mut reader)
MaybeDecodeWithCall ==
    /\ pc = "decode"
    /\ call_ty.c \in DerivedEnums
    /\ result' = MaybeDecodeWith(call_ty, Head(input), Tail(input))
    /\ r' = result'.rest
    /\ pc' = "maybe"
    /\ UNCHANGED <<decodeVars, w, lazy>>

\* T::decode_with_discriminant(discriminant, &mut reader)
DecodeWithCall ==
    /\ pc = "decode"
    /\ call_ty.c \in DerivedEnums \cup {"Section"}
    /\ result' = DecodeWith(call_ty, Head(input), Tail(input))
    /\ r' = result'.rest
    /\ pc' = "with"
    /\ UNCHANGED <<decodeVars, w, lazy>>

\* blob.try_contents() on the Blob that was decoded
BlobTryContents ==
    /\ pc = "decoded"
    /\ call_ty.c = "Blob"
    /\ result.ok
    /\ lazy' = result.val
    /\ result' = try_output(call_ty.of, result.val)
    /\ pc' = "contents"
    /\ UNCHANGED <<decodeVars, r, w>>

\* value.encode(&mut w) on the value that was decoded
EncodeCall ==
    /\ pc = "decoded"
    /\ call_ty.c \in Codable
    /\ result.ok
    /\ w' = Encode(call_ty, result.val)
    /\ pc' = "encoded"
    /\ UNCHANGED <<decodeVars, r, result, lazy>>

InitDecode ==
    /\ exception_handling \in BOOLEAN
    /\ pc = "decode"
    /\ stage = 1
    /\ r = <<>>
    /\ w = <<>>
    /\ module = EmptyModule
    /\ orig = EmptyModule
    /\ last_kind = "Custom"
    /\ pos = 1
    /\ result = NoResult
    /\ last_op = NoOp
    /\ visited = FALSE
    /\ lazy = from_raw(<<>>)
    /\ lazy_ty = T("String")
    /\ other = from_raw(<<>>)
    /\ decodes = 0
    /\ threads = NoThreads
    /\ call = NoCall
    /\ \E i \in 1..Len(DecodeTypes) :
          /\ call_ty = DecodeTypes[i]
          /\ input \in DecodeInputs(DecodeTypes[i])

NextDecode ==
    \/ DecodeCall
    \/ MaybeDecodeWithCall
    \/ DecodeWithCall
    \/ BlobTryContents
    \/ EncodeCall

SpecDecode == InitDecode /\ [][NextDecode]_vars

(***************************************************************************)
(* The canonical order, as the properties state it.                        *)
(***************************************************************************)
\* The place of a kind in the declared list of kinds.
CanonicalPosition(kind) == CHOOSE i \in 1..Len(Kinds) : Kinds[i] = kind

KindsOf(sections) == [i \in 1..Len(sections) |-> sections[i].kind]

IsStd(kind) == kind # "Custom"

Standard(kinds) == SelectSeq(kinds, IsStd)

\* The i-th kind is not custom and not strictly greater than some
\* non-custom kind before it.
Offends(kinds, i) ==
    /\ IsStd(kinds[i])
    /\ \E j \in 1..(i - 1) :
          IsStd(kinds[j]) /\ CanonicalPosition(kinds[i]) <= CanonicalPosition(kinds[j])

InOrder(kinds) == \A i \in 1..Len(kinds) : ~Offends(kinds, i)

\* The greatest non-custom kind among the first n kinds.
Greatest(kinds, n) ==
    kinds[CHOOSE j \in 1..n :
            /\ IsStd(kinds[j])
            /\ \A l \in 1..n :
                  IsStd(kinds[l]) => CanonicalPosition(kinds[l]) <= CanonicalPosition(kinds[j])]

\* The kind bytes of the sections of an input of SpecOrder.
InputDiscriminants ==
    [i \in 1..((Len(input) - 8) \div 3) |-> input[8 + 3 * (i - 1) + 1]]

KnownDiscriminant(d) == IsSome(KindTryFrom(d, exception_handling))

\* The kinds of the sections of the input up to the first kind byte the
\* build does not know.
InputKinds ==
    LET ds == InputDiscriminants
        n == CHOOSE m \in 0..Len(ds) :
                /\ \A i \in 1..m : KnownDiscriminant(ds[i])
                /\ m < Len(ds) => ~KnownDiscriminant(ds[m + 1])
    IN  [i \in 1..n |-> Unwrap(KindTryFrom(ds[i], exception_handling))]

\* What a tracker says of a list of kinds, starting from last.
RECURSIVE TrackerAccepts(_, _)
TrackerAccepts(kinds, last) ==
    IF kinds = <<>> THEN TRUE
    ELSE /\ try_add(last, Head(kinds)).ok
         /\ TrackerAccepts(Tail(kinds), try_add(last, Head(kinds)).val)

DecodeFinished == pc \in {"ready", "decode_failed"} /\ last_op.op = "decode_from"

(***************************************************************************)
(* C4.  Decoding fails with SectionOutOfOrder exactly when some non-custom *)
(* section is not strictly greater, in canonical order, than the greatest  *)
(* non-custom kind decoded before it; the error holds that greatest kind   *)
(* as prev and the offending kind as current.                              *)
(***************************************************************************)
C4_OrderOnDecode ==
    DecodeFinished =>
        LET kinds == InputKinds
            offenders == {i \in 1..Len(kinds) : Offends(kinds, i)}
            first == CHOOSE i \in offenders : \A j \in offenders : i <= j
        IN  IF offenders = {} THEN result.err.kind # "SectionOutOfOrder"
            ELSE result = Err(SectionOrderError(Greatest(kinds, first - 1), kinds[first]))

\* Function then Import: the error names Function and Import.
C4_Witness ==
    /\ pc = "decode_failed"
    /\ InputKinds = <<"Function", "Import">>
    /\ result.err = [kind |-> "SectionOutOfOrder", prev |-> "Function", current |-> "Import"]

(***************************************************************************)
(* C5.  Encoding a sections list ends in an error when some non-custom     *)
(* section is not strictly greater than the non-custom sections before it, *)
(* and ends well when the list respects the order.                         *)
(***************************************************************************)
C5_OrderOnEncode ==
    LET kinds == KindsOf(module.sections)
    IN  /\ pc = "encode_sections" => InOrder(SubSeq(kinds, 1, pos - 1))
        /\ pc = "encoded" => InOrder(kinds) /\ result.ok
        /\ pc = "encode_failed" =>
              /\ ~InOrder(kinds)
              /\ Offends(kinds, pos)
              /\ InOrder(SubSeq(kinds, 1, pos - 1))
              /\ result.err.kind = "SectionOutOfOrder"

C5_Witness ==
    /\ pc = "encode_failed"
    /\ KindsOf(module.sections) = <<"Type", "Code", "Function">>
    /\ pos = 3

(***************************************************************************)
(* C6.  A custom section never makes the tracker err and leaves its last   *)
(* kind as it was, and a list of sections is accepted by decode and by     *)
(* encode exactly when the tracker accepts the list without its custom     *)
(* sections.                                                               *)
(***************************************************************************)
C6_CustomSectionsIgnored ==
    [][/\ (pc = "decode_sections" /\ r # <<>> /\ r[1] = 0) =>
              (pc' = "decode_sections" /\ last_kind' = last_kind)
       /\ (/\ pc = "encode_sections"
           /\ pos <= Len(module.sections)
           /\ module.sections[pos].kind = "Custom") =>
              (pc' = "encode_sections" /\ last_kind' = last_kind /\ pos' = pos + 1)
       /\ (/\ pc = "decode_sections"
           /\ pc' \in {"ready", "decode_failed"}
           /\ Len(InputKinds) = Len(InputDiscriminants)) =>
              (pc' = "ready" <=> TrackerAccepts(Standard(InputKinds), "Custom"))
       /\ (pc = "encode_sections" /\ pc' \in {"encoded", "encode_failed"}) =>
              (pc' = "encoded"
                  <=> TrackerAccepts(Standard(KindsOf(module.sections)), "Custom"))
      ]_vars

\* Custom sections before the first, between and after the last standard
\* section of a module that was decoded and encoded.
C6_Witness ==
    /\ pc = "encoded"
    /\ KindsOf(module.sections) = <<"Custom", "Type", "Custom">>

(***************************************************************************)
(* C7.  The order is the declared one, not the one of the kind bytes:      *)
(* Element, DataCount, Code is accepted and Code, DataCount is not; with   *)
(* exception handling, Memory, Exception, Global is accepted and Global,   *)
(* Exception is not; and two standard sections are accepted exactly when   *)
(* the first is declared before the second.                                *)
(***************************************************************************)
C7_OrderByDeclaredPosition ==
    DecodeFinished =>
        LET ds == InputDiscriminants
            kinds == InputKinds
        IN  /\ ds = <<9, 12, 10>> => pc = "ready"
            /\ ds = <<10, 12>> => result = Err(SectionOrderError("Code", "DataCount"))
            /\ (exception_handling /\ ds = <<5, 13, 6>>) => pc = "ready"
            /\ (exception_handling /\ ds = <<6, 13>>) =>
                  result = Err(SectionOrderError("Global", "Exception"))
            /\ (Len(ds) = 2 /\ Len(kinds) = 2 /\ IsStd(kinds[1]) /\ IsStd(kinds[2])) =>
                  (pc = "ready"
                      <=> CanonicalPosition(kinds[1]) < CanonicalPosition(kinds[2]))

C7_Witness ==
    /\ pc = "ready"
    /\ exception_handling
    /\ InputDiscriminants = <<5, 13, 6>>

(***************************************************************************)
(* C8.  find_or_insert_std_section on a list that holds a section of the   *)
(* wanted kind returns that section, inserts nothing and leaves the list   *)
(* as it was.                                                              *)
(***************************************************************************)
FindOrInsertStep == pc = "ready" /\ pc' = "ready" /\ last_op'.op = "find_or_insert"

C8_FindExisting ==
    [][(/\ FindOrInsertStep
        /\ \E i \in 1..Len(module.sections) : module.sections[i].kind = last_op'.kind) =>
           /\ ~last_op'.inserted
           /\ module' = module
           /\ module.sections[last_op'.index].kind = last_op'.kind
      ]_vars

(***************************************************************************)
(* C9.  find_or_insert_std_section on a list the tracker accepts leaves a  *)
(* list the tracker accepts, with one section of the wanted kind, which is *)
(* the one it returns, and with the sections that were there.              *)
(***************************************************************************)
Count(kinds, kind) == Cardinality({i \in 1..Len(kinds) : kinds[i] = kind})

C9_InsertKeepsOrder ==
    [][(FindOrInsertStep /\ InOrder(KindsOf(module.sections))) =>
           /\ InOrder(KindsOf(module'.sections))
           /\ TrackerAccepts(KindsOf(module'.sections), "Custom")
           /\ Count(KindsOf(module'.sections), last_op'.kind) = 1
           /\ module'.sections[last_op'.index].kind = last_op'.kind
           /\ \A kind \in KindSet(exception_handling) :
                 Count(KindsOf(module'.sections), kind)
                     >= Count(KindsOf(module.sections), kind)
      ]_vars

\* Function was inserted between Type and Code.
C9_Witness ==
    /\ last_op = [op |-> "find_or_insert", kind |-> "Function", index |-> 2,
                  inserted |-> TRUE]
    /\ KindsOf(module.sections) = <<"Type", "Function", "Code">>
    /\ pc = "ready"

(***************************************************************************)
(* C10.  A mutable access to a Lazy (try_contents_mut, visit_mut) leaves   *)
(* it Owned, with no raw bytes for try_as_raw to give, and a Lazy that is  *)
(* Owned never is FromInput again.                                         *)
(***************************************************************************)
MutableAccess == last_op'.op \in {"try_contents_mut", "visit_mut", "write"}

OneWay == lazy.status = "Output" => lazy'.status = "Output"

C10_MutableAccessOwns ==
    [][/\ MutableAccess => (lazy'.status = "Output" /\ ~try_as_raw(lazy').ok)
       /\ OneWay
      ]_vars

(***************************************************************************)
(* C10, amended.  A mutable access to a Lazy that decodes leaves it Owned, *)
(* with no raw bytes for try_as_raw to give; try_contents_mut on raw bytes *)
(* that do not decode returns the error and leaves the Lazy as it was,     *)
(* FromInput; and a Lazy that is Owned never is FromInput again.           *)
(***************************************************************************)
Decodes(ty, this) == try_contents(ty, this).ok

C10_DecodedMutableAccessOwns ==
    [][/\ (MutableAccess /\ Decodes(lazy_ty, lazy)) =>
              (lazy'.status = "Output" /\ ~try_as_raw(lazy').ok)
       /\ (MutableAccess /\ ~Decodes(lazy_ty, lazy)) =>
              (lazy' = lazy /\ ~result'.ok /\ try_as_raw(lazy').ok)
       /\ OneWay
      ]_vars

\* try_contents_mut has turned raw bytes into the owned string "a".
C10_Witness ==
    /\ last_op.op = "try_contents_mut"
    /\ lazy_ty = T("String")
    /\ lazy = [status |-> "Output", value |-> <<97>>]
    /\ w = <<>>

(***************************************************************************)
(* The round trips.                                                        *)
(***************************************************************************)
FromBytes == input # <<>>

FromMemory == input = <<>>

\* Every section of the module is owned: no section holds its bytes.
Materialized(m) == \A i \in DOMAIN m.sections : m.sections[i].blob.input = None

\* The length of every section in the bytes is written in the fewest bytes.
RECURSIVE MinimalLengths(_)
MinimalLengths(s) ==
    IF Len(s) < 2 THEN TRUE
    ELSE LET size == DecodeU32(Tail(s))
         IN  IF ~size.ok THEN TRUE
             ELSE LET used == Len(s) - 1 - Len(size.rest)
                  IN  /\ SubSeq(s, 2, 1 + used) = LebWriteUnsigned(size.val)
                      /\ MinimalLengths(SubSeq(size.rest, size.val + 1, Len(size.rest)))

SectionLengthsMinimal(bytes) ==
    MinimalLengths(SubSeq(bytes, Len(MAGIC_AND_VERSION) + 1, Len(bytes)))

(***************************************************************************)
(* C1.  For every module built in memory whose encoding succeeds, decoding *)
(* the bytes written, with or without materializing the contents, succeeds *)
(* and yields a module equal to the one encoded.                           *)
(***************************************************************************)
C1_ArbitraryRoundtrip ==
    (FromMemory /\ stage = 2) =>
        /\ pc \notin {"decode_failed", "visit_failed"}
        /\ pc = "ready" => Eq(T("Module"), orig, module)

(***************************************************************************)
(* C2.  For bytes that decode_from accepts and a module that is not        *)
(* accessed mutably, encode_into succeeds and, when the section lengths of *)
(* the bytes are minimal LEB128, writes exactly the bytes decoded.         *)
(***************************************************************************)
C2_BytesRoundtripUntouched ==
    (FromBytes /\ stage = 1 /\ ~visited) =>
        /\ pc # "encode_failed"
        /\ (pc = "encoded" /\ SectionLengthsMinimal(input)) => w = input

C2_Witness ==
    /\ FromBytes /\ stage = 1 /\ ~visited /\ pc = "encoded"
    /\ SectionLengthsMinimal(input)
    /\ Len(module.sections) >= 2
    /\ w = input

(***************************************************************************)
(* C3.  For bytes that decode and materialize to a module m, encoding m    *)
(* succeeds, and decoding and materializing the bytes written succeeds and *)
(* yields a module equal to m, minimal LEB128 or not.                      *)
(***************************************************************************)
C3_ParseWriteParse ==
    /\ (FromBytes /\ stage = 1 /\ visited) => pc # "encode_failed"
    /\ (FromBytes /\ stage = 2 /\ Materialized(orig)) =>
          /\ pc \notin {"decode_failed", "visit_failed"}
          /\ pc = "ready" => Eq(T("Module"), orig, module)

C3_Witness ==
    /\ FromBytes /\ stage = 2 /\ Materialized(orig) /\ pc = "ready" /\ visited
    /\ Len(orig.sections) >= 2
    /\ w # input
    /\ Eq(T("Module"), orig, module)

(***************************************************************************)
(* C11.  Encoding a Lazy that is FromInput writes exactly its raw bytes,   *)
(* decodable or not, canonical or not, and the reads (try_as_raw,          *)
(* try_contents, ==, hash, visit, encode) leave it FromInput with the same *)
(* raw bytes; a mutable access that returns the value leaves it Owned, and *)
(* encoding an Owned Lazy writes the encoding of its value.                *)
(***************************************************************************)
ReadOnlyAccess ==
    last_op'.op \in {"try_as_raw", "try_contents", "eq", "hash", "visit", "encode"}

C11_EncodeRawUntilMutated ==
    [][/\ (last_op'.op = "encode" /\ lazy.status = "FromInput") => w' = lazy.raw
       /\ (last_op'.op = "encode" /\ lazy.status = "Output") =>
              w' = Encode(lazy_ty, lazy.value)
       /\ (ReadOnlyAccess /\ lazy.status = "FromInput") =>
              (lazy'.status = "FromInput" /\ lazy'.raw = lazy.raw)
       /\ (MutableAccess /\ result'.ok) => lazy'.status = "Output"
      ]_vars

\* A padded encoding of "a" was read, and then written as it came.
C11_Witness ==
    /\ last_op.op = "encode"
    /\ lazy_ty = T("String")
    /\ lazy.status = "FromInput"
    /\ lazy.parsed = Some(<<97>>)
    /\ w = <<129, 0, 97>>
    /\ w # Encode(lazy_ty, Unwrap(lazy.parsed))

(***************************************************************************)
(* C12.  Two Lazy values that are both FromInput with the same raw bytes   *)
(* compare equal, decodable or not, and the comparison leaves both as they *)
(* were: no memo cell is filled.  In every other case try_contents runs on *)
(* both sides, the result is false if either fails, and otherwise it is    *)
(* the comparison of the two values.                                       *)
(***************************************************************************)
C12_EqFastPathOrByValue ==
    [][last_op'.op = "eq" =>
          LET x == try_contents(lazy_ty, lazy)
              y == try_contents(lazy_ty, other)
              same == /\ lazy.status = "FromInput" /\ other.status = "FromInput"
                      /\ lazy.raw = other.raw
          IN  /\ same => (result'.val = <<TRUE>> /\ lazy' = lazy /\ other' = other)
              /\ ~same =>
                    /\ lazy' = try_contents_memo(lazy_ty, lazy)
                    /\ other' = try_contents_memo(lazy_ty, other)
                    /\ (~x.ok \/ ~y.ok) => result'.val = <<FALSE>>
                    /\ (x.ok /\ y.ok) => (result'.val[1] <=> Eq(lazy_ty, x.val, y.val))
                    /\ (x.ok /\ y.ok /\ lazy_ty = T("String")) =>
                          (result'.val[1] <=> x.val = y.val)
      ]_<<last_op, lazy, other>>

\* Bytes that do not decode compared equal on the fast path, no cell filled.
C12_Witness ==
    /\ last_op.op = "eq"
    /\ result.val = <<TRUE>>
    /\ lazy.status = "FromInput" /\ other.status = "FromInput"
    /\ lazy.raw = other.raw
    /\ lazy.parsed = None /\ other.parsed = None
    /\ ~try_contents(lazy_ty, lazy).ok

\* Different bytes of one value compared equal, and both cells were filled.
C12_WitnessByValue ==
    /\ last_op.op = "eq"
    /\ result.val = <<TRUE>>
    /\ lazy.status = "FromInput" /\ other.status = "FromInput"
    /\ lazy.raw # other.raw
    /\ IsSome(lazy.parsed) /\ IsSome(other.parsed)

(***************************************************************************)
(* C13.  Two Lazy values that compare equal feed the same data to the      *)
(* hasher, whatever their states: FromInput with bytes that decode or do   *)
(* not, memoized or not, or Owned.                                         *)
(***************************************************************************)
C13_HashConsistentWithEq ==
    Eq(TLazy(lazy_ty), lazy, other) =>
        Hash(TLazy(lazy_ty), lazy) = Hash(TLazy(lazy_ty), other)

\* A padded encoding of "a" was hashed, and hashes as the Owned "a" does.
C13_Witness ==
    /\ last_op.op = "hash"
    /\ lazy.status = "FromInput" /\ other.status = "Output"
    /\ lazy.raw # Encode(lazy_ty, other.value)
    /\ Eq(TLazy(lazy_ty), lazy, other)
    /\ result.val = Hash(TLazy(lazy_ty), other)
    /\ result.val # <<>>

(***************************************************************************)
(* C14.  try_contents on a Lazy read from input decodes to a value at most *)
(* once; a call that finds the OnceCell filled returns the value in it and *)
(* changes nothing; the Lazy stays FromInput with its raw bytes; a decode  *)
(* that fails fills nothing and leaves the Lazy as it was.                 *)
(***************************************************************************)
C14_AfterTryContents ==
    /\ decodes <= 1
    /\ (last_op.op = "try_contents" /\ lazy.status = "FromInput") =>
          /\ result.ok => lazy.parsed = Some(result.val)
          /\ ~result.ok => /\ lazy.parsed = None
                           /\ result = decode_raw(lazy_ty, lazy.raw)

C14_TryContentsStep ==
    (last_op'.op = "try_contents" /\ lazy.status = "FromInput") =>
        /\ lazy'.status = "FromInput"
        /\ lazy'.raw = lazy.raw
        /\ IsSome(lazy.parsed) => /\ lazy' = lazy
                                  /\ decodes' = decodes
        /\ ~decode_raw(lazy_ty, lazy.raw).ok => /\ lazy' = lazy
                                                /\ decodes' = decodes

C14_DecodedAtMostOnce ==
    /\ []C14_AfterTryContents
    /\ [][C14_TryContentsStep]_<<last_op, lazy, decodes>>

\* A read of a padded encoding found the value in the OnceCell.
C14_Witness ==
    /\ last_op.op = "try_contents"
    /\ lazy.status = "FromInput" /\ lazy.raw = <<129, 0, 97>>
    /\ lazy.parsed = Some(<<97>>)
    /\ result.ok /\ result.val = <<97>>
    /\ decodes = 1

\* A read of bytes that do not decode failed and filled nothing.
C14_WitnessFailed ==
    /\ last_op.op = "try_contents"
    /\ lazy.status = "FromInput" /\ lazy.parsed = None
    /\ ~result.ok
    /\ decodes = 0

(***************************************************************************)
(* C15.  With several threads calling try_contents on one shared Lazy read *)
(* from input, in any interleaving: what OnceCell::get shows is nothing or *)
(* the whole decoded value, never a slot under write; the slot is written  *)
(* at most once; and all calls that return Ok return the same value.       *)
(***************************************************************************)
C15_SharedReads ==
    /\ Get # None => /\ ~threads.torn
                     /\ decode_raw(lazy_ty, lazy.raw).ok
                     /\ Get = Some(decode_raw(lazy_ty, lazy.raw).val)
    /\ decodes <= 1
    /\ \A t \in 1..MaxThreads :
          (threads.calls[t].pc = "done" /\ threads.calls[t].ret.ok) =>
              /\ threads.calls[t].ret.val = decode_raw(lazy_ty, lazy.raw).val
              /\ \A u \in 1..MaxThreads :
                    (threads.calls[u].pc = "done" /\ threads.calls[u].ret.ok) =>
                        threads.calls[u].ret.val = threads.calls[t].ret.val

\* One thread is about to take the fast path after another initialized
\* the cell and returned the value.
C15_Witness ==
    /\ pc = "shared"
    /\ threads.state = "COMPLETE"
    /\ decodes = 1
    /\ lazy.raw = <<129, 0, 97>>
    /\ \E t, u \in 1..MaxThreads :
          /\ t # u
          /\ threads.calls[t].pc = "done" /\ threads.calls[t].ret = Ok(<<97>>, <<>>)
          /\ threads.calls[u].pc = "done" /\ threads.calls[u].ret = Ok(<<97>>, <<>>)

\* A thread waits while another one is writing the slot.
C15_WitnessWaiting ==
    /\ pc = "shared"
    /\ threads.state = "RUNNING" /\ threads.torn
    /\ \E t, u \in 1..MaxThreads :
          /\ threads.calls[t].pc = "storing"
          /\ threads.calls[u].pc = "initialize"

(***************************************************************************)
(* C16.  Decoding an expression ends at the first END opcode met at depth  *)
(* 0, that is, with as many ENDs as BLOCK/LOOP/IF openers before it: that  *)
(* END is read and not stored, the bytes before it are the instructions    *)
(* stored, every END stored was met at a depth above 0, the other opcodes  *)
(* do not count, and the bytes after that END are left in the reader.      *)
(***************************************************************************)
IsOpener(instr) == instr.op \in {"BlockStart", "LoopStart", "IfStart"}

\* The depth after the first i instructions of e.
DepthAfter(e, i) ==
    Cardinality({j \in 1..i : IsOpener(e[j])}) - Cardinality({j \in 1..i : e[j].op = "End"})

C16_ExpressionEndsAtDepthZero ==
    (call_ty = T("Expression") /\ pc \in {"decoded", "encoded"} /\ result.ok) =>
        LET e == result.val
            n == Len(input) - Len(result.rest)
        IN  /\ n >= 1
            /\ input[n] = OP_CODE_END
            /\ SubSeq(input, 1, n - 1) = EncodeInstructions(e)
            /\ result.rest = SubSeq(input, n + 1, Len(input))
            /\ r = result.rest
            /\ DepthAfter(e, Len(e)) = 0
            /\ \A i \in 1..Len(e) : e[i].op = "End" => DepthAfter(e, i - 1) > 0

\* BLOCK, Call 11, END, END, Nop: the first END byte is an immediate, the
\* second one is stored, the third one ends the expression.
C16_Witness ==
    /\ call_ty = T("Expression") /\ pc = "decoded"
    /\ input = <<OP_CODE_BLOCK_START, OP_CODE_EMPTY_BLOCK, 16, OP_CODE_END,
                 OP_CODE_END, OP_CODE_END, 1>>
    /\ result.ok
    /\ Len(result.val) = 3
    /\ result.val[2] = [op |-> "Call", func |-> 11]
    /\ result.val[3] = [op |-> "End"]
    /\ result.rest = <<1>>

(***************************************************************************)
(* C17.  The bytes of a function body whose expression is N BLOCK(empty)   *)
(* followed by N END (the END that ends the expression comes after them)   *)
(* decode to an expression of 2N instructions, and the body is encoded to  *)
(* the same bytes; N is up to MaxDepth.                                    *)
(***************************************************************************)
C17_DeepNesting ==
    \A n \in 0..MaxDepth :
        (call_ty = T("FuncBody") /\ input = DeepBody(n)
                                 /\ pc \in {"decoded", "encoded"}) =>
            /\ result.ok
            /\ result.rest = <<>>
            /\ Len(result.val.expr) = 2 * n
            /\ \A i \in 1..n : /\ result.val.expr[i].op = "BlockStart"
                               /\ result.val.expr[i].ty = [bt |-> "Empty"]
            /\ \A i \in (n + 1)..(2 * n) : result.val.expr[i].op = "End"
            /\ pc = "encoded" => w = input

C17_Witness ==
    /\ call_ty = T("FuncBody") /\ pc = "encoded"
    /\ input = DeepBody(MaxDepth)
    /\ Len(result.val.expr) = 2 * MaxDepth
    /\ w = input

(***************************************************************************)
(* C18.  The region of a Blob<T> that T's decoder does not use up yields   *)
(* UnrecognizedData and never a T: the contents that are produced encode   *)
(* to the whole region.  A blob whose length is above the bytes left in    *)
(* the reader is not decoded.                                              *)
(***************************************************************************)
C18_BlobRegionUsedUp ==
    call_ty.c = "Blob" =>
        /\ (pc = "decoded" /\ input # <<>> /\ input[1] > Len(input) - 1) =>
              /\ ~result.ok
              /\ result.err = UnrecognizedData
        /\ pc = "contents" =>
              LET region == SubSeq(input, 2, 1 + input[1])
                  inner == Decode(call_ty.of, region)
              IN  /\ lazy.input = Some(region)
                  /\ (inner.ok /\ inner.rest # <<>>) =>
                        /\ ~result.ok
                        /\ result.err = UnrecognizedData
                  /\ result.ok => Encode(call_ty.of, result.val) = region

\* A region of three bytes that holds the string "a" and one more byte.
C18_Witness ==
    /\ call_ty = TBlob(T("String")) /\ pc = "contents"
    /\ input = <<3, 1, 97, 97>>
    /\ lazy.input = Some(<<1, 97, 97>>)
    /\ ~result.ok /\ result.err = UnrecognizedData

\* A length of three with two bytes left.
C18_WitnessShort ==
    /\ call_ty = TBlob(T("String")) /\ pc = "decoded"
    /\ input = <<3, 1, 97>>
    /\ ~result.ok /\ result.err = UnrecognizedData

(***************************************************************************)
(* C20.  decode_with_discriminant of an enum, on a discriminant that no    *)
(* variant declares and no catch-all variant takes, is                     *)
(* UnsupportedDiscriminant with the name of the enum and the discriminant; *)
(* maybe_decode_with_discriminant is None and leaves the reader as it was. *)
(***************************************************************************)
\* The discriminants the variants declare, and the ones of the type of the
\* catch-all variant.
Declared(ty) ==
    CASE ty.c = "RefType" -> {112, 111}
      [] ty.c = "ValueType" -> {123, 124, 125, 126, 127} \cup {112, 111}
      [] ty.c = "bool" -> {0, 1}
      [] ty.c = "NameSubSection" -> {0, 1, 2}
      [] ty.c = "Instruction" -> {0, 1, 2, 3, 4, 5, 11, 15, 16, 26}
      [] ty.c = "Section" -> 0..12 \cup (IF exception_handling THEN {13} ELSE {})
      [] OTHER -> {}

EnumName(ty) == IF ty.c = "bool" THEN "BoolRepr" ELSE ty.c

C20_UndeclaredDiscriminant ==
    (Declared(call_ty) # {} /\ Head(input) \notin Declared(call_ty)) =>
        /\ pc \in {"with", "decoded"} =>
              /\ ~result.ok
              /\ result.err = UnsupportedDiscriminant(EnumName(call_ty), Head(input))
        /\ pc = "maybe" =>
              /\ result.ok
              /\ result.val = None
              /\ result.rest = Tail(input)
              /\ r = Tail(input)

\* 113 is neither a ValueType nor a RefType.
C20_Witness ==
    /\ call_ty = T("ValueType") /\ pc = "with"
    /\ input = <<113, 1>>
    /\ result.err = UnsupportedDiscriminant("ValueType", 113)

C20_WitnessMaybe ==
    /\ call_ty = T("NameSubSection") /\ pc = "maybe"
    /\ input = <<3, 2, 1, 97>>
    /\ result.val = None /\ r = <<2, 1, 97>>

(***************************************************************************)
(* C19.  Module::decode_from goes on to the sections if and only if the    *)
(* first 8 bytes are 00 61 73 6D 01 00 00 00; on 8 other bytes it fails    *)
(* with InvalidMagic whose actual is those 8 bytes, and decodes no         *)
(* section; the 8 bytes alone decode to a module without sections.         *)
(***************************************************************************)
C19_PrefixStep ==
    pc = "decode" =>
        LET prefix == SubSeq(r, 1, 8)
            good == Len(r) >= 8 /\ prefix = <<0, 97, 115, 109, 1, 0, 0, 0>>
        IN  /\ pc' = "decode_sections" <=> good
            /\ module'.sections = <<>>
            /\ (Len(r) >= 8 /\ ~good) =>
                  /\ pc' = "decode_failed"
                  /\ ~result'.ok
                  /\ result'.err = [kind |-> "InvalidMagic", actual |-> prefix]

C19_AfterPrefix ==
    /\ (pc = "decode_failed" /\ result.err.kind = "InvalidMagic") =>
          module.sections = <<>>
    /\ input = <<0, 97, 115, 109, 1, 0, 0, 0>> =>
          /\ pc # "decode_failed"
          /\ module.sections = <<>>

C19_ModulePrefix ==
    /\ []C19_AfterPrefix
    /\ [][C19_PrefixStep]_<<pc, r, module>>

\* Eight bytes of another version, with a section after them.
C19_Witness ==
    /\ pc = "decode_failed"
    /\ Len(input) > 8
    /\ result.err = [kind |-> "InvalidMagic", actual |-> <<0, 97, 115, 109, 2, 0, 0, 0>>]
    /\ module.sections = <<>>

\* The 8 bytes alone were decoded.
C19_WitnessEmpty ==
    /\ pc = "ready"
    /\ input = <<0, 97, 115, 109, 1, 0, 0, 0>>
    /\ module.sections = <<>>

(***************************************************************************)
(* C27.  try_contents_mut on a Lazy read from input whose bytes do not     *)
(* decode returns the decoding error and leaves the Lazy FromInput with    *)
(* the same raw bytes: an encode after it writes those bytes, and a        *)
(* try_contents after it fails with the same error.                        *)
(***************************************************************************)
FailedMutableAccess == last_op.op = "try_contents_mut" /\ ~result.ok

C27_AfterFailedAccess ==
    FailedMutableAccess =>
        /\ lazy.status = "FromInput"
        /\ lazy.parsed = None
        /\ result.err = decode_raw(lazy_ty, lazy.raw).err
        /\ Encode(TLazy(lazy_ty), lazy) = lazy.raw
        /\ ~try_contents(lazy_ty, lazy).ok
        /\ try_contents(lazy_ty, lazy).err = result.err

C27_FailedAccessStep ==
    /\ (last_op'.op = "try_contents_mut" /\ ~try_contents(lazy_ty, lazy).ok) =>
          /\ lazy' = lazy
          /\ ~result'.ok
    /\ (FailedMutableAccess /\ last_op'.op = "encode") => w' = lazy.raw
    /\ (FailedMutableAccess /\ last_op'.op = "try_contents") =>
          /\ ~result'.ok
          /\ result'.err = result.err
          /\ lazy' = lazy

C27_FailedMutableAccessKeepsInput ==
    /\ []C27_AfterFailedAccess
    /\ [][C27_FailedAccessStep]_<<last_op, lazy, w>>

\* The string "a" with one more byte after it: a mutable access failed.
C27_Witness ==
    /\ FailedMutableAccess
    /\ lazy_ty = T("String")
    /\ lazy = from_raw(<<1, 97, 97>>)
    /\ result.err = UnrecognizedData

(***************************************************************************)
(* C29.  When Module::encode_into fails with a section order error at a    *)
(* section, the writer holds the 8-byte prefix and the encodings of the    *)
(* sections before that one, and no byte of it or of a later section: the  *)
(* tracker is asked before a section is written.                           *)
(***************************************************************************)
\* The prefix and the encodings of the first n sections.
WrittenSections(n) ==
    <<0, 97, 115, 109, 1, 0, 0, 0>>
        \o Flatten([j \in 1..n |-> EncodeSection(module.sections[j])])

C29_PartialOutput ==
    /\ pc = "encode_sections" => w = WrittenSections(pos - 1)
    /\ pc = "encode_failed" =>
          /\ result.err.kind = "SectionOutOfOrder"
          /\ pos <= Len(module.sections)
          /\ result.err.current = module.sections[pos].kind
          /\ w = WrittenSections(pos - 1)

\* The third section is out of order: two sections were written.
C29_Witness ==
    /\ pc = "encode_failed"
    /\ KindsOf(module.sections) = <<"Type", "Code", "Function">>
    /\ pos = 3
    /\ w = WrittenSections(2)
    /\ Len(w) > 8

(***************************************************************************)
(* C23.  The sub-sections of a name section that decodes are in strictly   *)
(* ascending order of their discriminants: a name section whose            *)
(* sub-sections come in descending order, or twice, is not accepted.       *)
(***************************************************************************)
Ascending(sub) ==
    \A i \in 1..(Len(sub) - 1) :
        SubSectionDiscriminant(sub[i].variant) < SubSectionDiscriminant(sub[i + 1].variant)

C23_SubSectionsAscending ==
    (lazy_ty = TVec(T("NameSubSection")) /\ last_op.op = "try_contents" /\ result.ok) =>
        Ascending(result.val)

(***************************************************************************)
(* C21.  A custom section never fails the traversal of its module: when    *)
(* visit_mut over a Module returns a decoding error, a section that is not *)
(* custom has contents that do not decode, be the failure of the custom    *)
(* section in its payload or in its own body (its name); and the sections  *)
(* after a custom section are traversed.                                   *)
(***************************************************************************)
\* The sections whose traversal, on its own, ends in a decoding error.
FailingSections(m) ==
    {i \in 1..Len(m.sections) : ~VisitMut(T("Section"), m.sections[i]).ok}

C21_CustomSectionsNeverFail ==
    [][(pc = "ready" /\ last_op'.op = "visit_mut") =>
          /\ ~result'.ok =>
                \E i \in FailingSections(module) : module.sections[i].kind # "Custom"
          /\ (\A i \in FailingSections(module) : module.sections[i].kind = "Custom") =>
                \A i \in 1..Len(module.sections) :
                    module.sections[i].kind # "Custom" =>
                        IsSome(module'.sections[i].blob.output)
      ]_<<pc, module, visited>>

(***************************************************************************)
(* visit_mut with a callback: the callback is called on every node of the  *)
(* target type, counts its calls and returns an error on one of them.  The *)
(* nodes are those of the traversal above; the callback leaves the node it *)
(* is given as it is.                                                      *)
(***************************************************************************)
MaxCalls == 2

\* PathItem
PathName(name) == [item |-> "Name", name |-> name]

PathIndex(i) == [item |-> "Index", index |-> i]

PathVariant(ty, name) == [item |-> "Variant", name |-> <<ty, name>>]

\* VisitError
LazyDecode(err) == [kind |-> "LazyDecode", err |-> err, path |-> <<>>]

Custom == [kind |-> "Custom", path |-> <<>>]

\* A result of the traversal: the value as it is left and the calls made.
Visited(v, calls) == [ok |-> TRUE, val |-> v, err |-> NoError, calls |-> calls]

VisitFailed(v, e, calls) == [ok |-> FALSE, val |-> v, err |-> e, calls |-> calls]

\* The callbacks: the type they are for, and the call that returns an error
\* (0: none does).
Callbacks ==
    {[target |-> ty, fail |-> n] :
        ty \in {T("Module"), T("Section"), T("CustomSection"), T("Bytes"),
                TLazy(TVec(T("NameSubSection"))), T("NameSubSection")},
        n \in 0..MaxCalls}

\* VisitError::in_path under map_err: the path of a LazyDecode grows, any
\* other error is returned as it is.
in_path(res, item) ==
    IF ~res.ok /\ res.err.kind = "LazyDecode"
    THEN [res EXCEPT !.err.path = Append(@, item)]
    ELSE res

\* The value of a traversed child put back into its parent.
Rebuilt(res, parent(_)) == [res EXCEPT !.val = parent(res.val)]

RECURSIVE visit_child_mut(_, _, _, _)
RECURSIVE visit_children_mut(_, _, _, _)
RECURSIVE VisitIterMut(_, _, _, _, _)

\* Visit::visit_child_mut: the callback on the node when it is of the target
\* type, then the children.
visit_child_mut(ty, v, f, calls) ==
    IF ty = f.target
    THEN IF calls + 1 = f.fail
         THEN VisitFailed(v, Custom, calls + 1)
         ELSE visit_children_mut(ty, v, f, calls + 1)
    ELSE visit_children_mut(ty, v, f, calls)

\* Visit::visit_children_mut of each type.
visit_children_mut(ty, v, f, calls) ==
    CASE ty.c = "Blob" ->
            Let(try_output(ty.of, v), LAMBDA out :
                IF ~out.ok THEN VisitFailed(v, LazyDecode(out.err), calls)
                ELSE Rebuilt(visit_child_mut(ty.of, out.val, f, calls), new_from_output))
      [] ty.c = "Lazy" ->
            Let(try_contents_mut(ty.of, v), LAMBDA contents :
                IF ~contents.ok
                THEN VisitFailed(contents.val, LazyDecode(contents.err), calls)
                ELSE Rebuilt(visit_child_mut(ty.of, contents.val.value, f, calls),
                             LazyFrom))
      [] ty.c = "Vec" -> VisitIterMut(ty.of, v, 1, f, calls)
      [] ty.c = "NameSubSection" ->
            Rebuilt(in_path(visit_child_mut(TBlob(SubSectionType(v.variant)), v.blob,
                                            f, calls),
                            PathVariant("NameSubSection", v.variant)),
                    LAMBDA blob : [v EXCEPT !.blob = blob])
      [] ty.c = "CustomSection" ->
            \* Custom section decoding errors must be ignored: the result of
            \* the child is dropped.
            Let(visit_child_mut(CustomDataType(v.variant), v.data, f, calls),
                LAMBDA data : Visited([v EXCEPT !.data = data.val], data.calls))
      [] ty.c = "Section" ->
            Rebuilt(in_path(visit_child_mut(TBlob(PayloadType(v.kind)), v.blob, f, calls),
                            PathVariant("Section", v.kind)),
                    LAMBDA blob : [v EXCEPT !.blob = blob])
      [] ty.c = "Module" ->
            Rebuilt(in_path(in_path(visit_child_mut(TVec(T("Section")), v.sections,
                                                    f, calls),
                                    PathName("sections")),
                            PathVariant("Module", "Module")),
                    LAMBDA sections : [v EXCEPT !.sections = sections])
      [] OTHER -> Visited(v, calls)

\* impl_visit_for_iter!: the items in order, up to the first error.
VisitIterMut(ty, items, i, f, calls) ==
    IF i > Len(items) THEN Visited(items, calls)
    ELSE Let(in_path(visit_child_mut(ty, items[i], f, calls), PathIndex(i - 1)),
             LAMBDA item :
                 IF ~item.ok THEN Rebuilt(item, LAMBDA it : [items EXCEPT ![i] = it])
                 ELSE VisitIterMut(ty, [items EXCEPT ![i] = item.val], i + 1, f,
                                   item.calls))

\* Visit::visit_mut over the decoded module with one of the callbacks.
VisitMutWith ==
    /\ pc = "ready"
    /\ ~visited
    /\ \E f \in Callbacks :
       \E res \in {visit_child_mut(T("Module"), module, f, 0)} :
          /\ module' = res.val
          /\ result' = IF res.ok THEN NoResult ELSE Err(res.err)
          /\ pc' = IF res.ok THEN "ready" ELSE "visit_failed"
          /\ call' = [op |-> "visit_mut", f |-> f, calls |-> res.calls]
    /\ visited' = TRUE
    /\ last_op' = [NoOp EXCEPT !.op = "visit_mut"]
    /\ UNCHANGED <<lazy, lazy_ty, other, decodes, threads, call_ty, exception_handling,
                   stage, input, r, w, orig, last_kind, pos>>

InitVisit ==
    /\ InitCodec
    /\ pc = "decode"

NextVisit ==
    \/ DecodeMagic
    \/ DecodeSection
    \/ DecodeEnd
    \/ VisitMutWith

SpecVisit == InitVisit /\ [][NextVisit]_vars

\* The nodes of a value in the order of the traversal, each with its type
\* and the path of field names, indices and variant names down to it, the
\* innermost item first as DecodeError keeps it.
RECURSIVE Nodes(_, _, _)
RECURSIVE NodesOfItems(_, _, _, _)

Children(ty, v, path) ==
    CASE ty.c = "Blob" ->
            IF try_output(ty.of, v).ok
            THEN Nodes(ty.of, try_output(ty.of, v).val, path) ELSE <<>>
      [] ty.c = "Lazy" ->
            IF try_contents(ty.of, v).ok
            THEN Nodes(ty.of, try_contents(ty.of, v).val, path) ELSE <<>>
      [] ty.c = "Vec" -> NodesOfItems(ty.of, v, 1, path)
      [] ty.c = "NameSubSection" ->
            Nodes(TBlob(SubSectionType(v.variant)), v.blob,
                  <<PathVariant("NameSubSection", v.variant)>> \o path)
      [] ty.c = "CustomSection" -> Nodes(CustomDataType(v.variant), v.data, path)
      [] ty.c = "Section" ->
            Nodes(TBlob(PayloadType(v.kind)), v.blob,
                  <<PathVariant("Section", v.kind)>> \o path)
      [] ty.c = "Module" ->
            Nodes(TVec(T("Section")), v.sections,
                  <<PathName("sections"), PathVariant("Module", "Module")>> \o path)
      [] OTHER -> <<>>

Nodes(ty, v, path) == <<[ty |-> ty, path |-> path]>> \o Children(ty, v, path)

NodesOfItems(ty, items, i, path) ==
    IF i > Len(items) THEN <<>>
    ELSE Nodes(ty, items[i], <<PathIndex(i - 1)>> \o path)
         \o NodesOfItems(ty, items, i + 1, path)

\* The nodes of the module that a callback is for.
Targets(f) == SelectSeq(Nodes(T("Module"), module, <<>>), LAMBDA n : n.ty = f.target)

(***************************************************************************)
(* C22.  When the callback returns an error at a node, the traversal stops *)
(* there: the callback is not called on a later node, and visit_mut        *)
(* returns VisitError::Custom with the path of field names, indices and    *)
(* variant names down to that node.                                        *)
(***************************************************************************)
CallbackFailed ==
    call.op = "visit_mut" /\ call.f.fail > 0 /\ call.calls >= call.f.fail

C22_CallbackErrorStopsTraversal ==
    CallbackFailed =>
        /\ call.calls = call.f.fail
        /\ ~result.ok
        /\ result.err.kind = "Custom"
        /\ result.err.path = Targets(call.f)[call.f.fail].path

\* The two halves of C22 on their own: the stop, and the path.
C22_StopsAtError ==
    CallbackFailed => (call.calls = call.f.fail /\ ~result.ok /\ result.err.kind = "Custom")

C22_PathAttached ==
    (CallbackFailed /\ ~result.ok /\ result.err.kind = "Custom") =>
        result.err.path = Targets(call.f)[call.f.fail].path

(***************************************************************************)
(* The lazies of a value in the order of the traversal: the state of each, *)
(* its raw bytes, and whether its contents decode.                         *)
(***************************************************************************)
RECURSIVE LazyStates(_, _)
RECURSIVE LazyStatesOfItems(_, _)

LazyStates(ty, v) ==
    CASE ty.c = "Blob" ->
            IF try_output(ty.of, v).ok
            THEN LazyStates(ty.of, try_output(ty.of, v).val) ELSE <<>>
      [] ty.c = "Lazy" ->
            <<[status |-> v.status,
               raw |-> IF v.status = "FromInput" THEN v.raw ELSE <<>>,
               decodes |-> try_contents(ty.of, v).ok]>>
            \o (IF try_contents(ty.of, v).ok
                THEN LazyStates(ty.of, try_contents(ty.of, v).val) ELSE <<>>)
      [] ty.c = "Vec" -> LazyStatesOfItems(ty.of, v)
      [] ty.c = "NameSubSection" -> LazyStates(TBlob(SubSectionType(v.variant)), v.blob)
      [] ty.c = "CustomSection" -> LazyStates(CustomDataType(v.variant), v.data)
      [] ty.c = "Section" -> LazyStates(TBlob(PayloadType(v.kind)), v.blob)
      [] ty.c = "Module" -> LazyStates(TVec(T("Section")), v.sections)
      [] OTHER -> <<>>

LazyStatesOfItems(ty, items) ==
    IF items = <<>> THEN <<>>
    ELSE LazyStates(ty, items[1]) \o LazyStatesOfItems(ty, Tail(items))

ModuleLazies == LazyStates(T("Module"), module)

\* visit_mut over the module has returned Ok.
Unlazified == last_op.op = "visit_mut" /\ pc = "ready"

C26_AfterVisitMut ==
    Unlazified =>
        \A i \in DOMAIN ModuleLazies :
            /\ ModuleLazies[i].decodes => ModuleLazies[i].status = "Output"
            /\ ~ModuleLazies[i].decodes => ModuleLazies[i].status = "FromInput"

C26_VisitStep ==
    (~visited /\ visited' /\ last_op'.op = "visit") =>
        LazyStates(T("Module"), module') = ModuleLazies

C26_WitnessRaw ==
    /\ Unlazified /\ input # <<>> /\ stage = 1
    /\ \E i \in DOMAIN ModuleLazies : ~ModuleLazies[i].decodes

\* visit has decoded a Lazy, which is FromInput as before.
C26_WitnessReadOnly ==
    /\ last_op.op = "visit" /\ pc = "ready" /\ input # <<>>
    /\ \E i \in DOMAIN ModuleLazies :
          ModuleLazies[i].status = "FromInput" /\ ModuleLazies[i].decodes

(***************************************************************************)
(* def_integer!: u32, i32, u64 and i64 as LEB128.  A value is kept as the  *)
(* 7-bit groups of its shortest encoding, least significant first, which   *)
(* holds all 64 bits of it.                                                *)
(***************************************************************************)
MaxPad == 11

IntegerTypes ==
    << [name |-> "u32", bits |-> 32, signed |-> FALSE],
       [name |-> "i32", bits |-> 32, signed |-> TRUE],
       [name |-> "u64", bits |-> 64, signed |-> FALSE],
       [name |-> "i64", bits |-> 64, signed |-> TRUE] >>

\* const LIMIT: u64 = (std::mem::size_of::<$ty>() * 8 / 7) as u64 + 1
LIMIT(int) == int.bits \div 7 + 1

\* An error of the reader, with what it left of the input.
ReadErr(e, rest) == [Err(e) EXCEPT !.rest = rest]

\* The tail of the overflow path of leb128::read: it reads on to the end of
\* the number, and fails with the reader when that runs out first.
RECURSIVE SkipContinuation(_, _, _)
SkipContinuation(byte, s, left) ==
    IF byte < 128 THEN ReadErr(Leb128Overflow, s)
    ELSE IF left = 0 \/ s = <<>> THEN ReadErr(IoError, s)
    ELSE SkipContinuation(s[1], Tail(s), left - 1)

\* leb128::read::unsigned and leb128::read::signed behind Read::take(r, left):
\* the groups read so far are in groups.  With a shift of 63 the byte may
\* hold bit 63 alone, or for a signed number the sign alone.
RECURSIVE LebRead(_, _, _, _)
LebRead(signed, s, left, groups) ==
    IF left = 0 \/ s = <<>> THEN ReadErr(IoError, s)
    ELSE IF Len(groups) = 9 /\ s[1] # 0 /\ s[1] # (IF signed THEN 127 ELSE 1)
    THEN SkipContinuation(s[1], Tail(s), left - 1)
    ELSE IF s[1] < 128 THEN Ok(Append(groups, s[1]), Tail(s))
    ELSE LebRead(signed, Tail(s), left - 1, Append(groups, s[1] % 128))

RECURSIVE Pow2(_)
Pow2(n) == IF n = 0 THEN 1 ELSE 2 * Pow2(n - 1)

\* Bit p of the number that the groups hold.
Bit(groups, p) == (groups[p \div 7 + 1] \div Pow2(p % 7)) % 2

\* The sign of a signed LEB128 is bit 6 of its last group.
SignBit(groups) == Bit(groups, 7 * Len(groups) - 1)

\* Self::try_from(as_64): the bits above the width are zero, or for a signed
\* type are those of the sign.
TryFromAs64(int, groups) ==
    IF int.signed
    THEN \A p \in (int.bits - 1)..(7 * Len(groups) - 1) : Bit(groups, p) = SignBit(groups)
    ELSE \A p \in int.bits..(7 * Len(groups) - 1) : Bit(groups, p) = 0

\* The groups of the shortest encoding of the same number.
RECURSIVE Shortest(_, _)
Shortest(signed, groups) ==
    IF Len(groups) <= 1 THEN groups
    ELSE IF signed /\ groups[Len(groups)] = 0 /\ groups[Len(groups) - 1] < 64
    THEN Shortest(signed, SubSeq(groups, 1, Len(groups) - 1))
    ELSE IF signed /\ groups[Len(groups)] = 127 /\ groups[Len(groups) - 1] >= 64
    THEN Shortest(signed, SubSeq(groups, 1, Len(groups) - 1))
    ELSE IF ~signed /\ groups[Len(groups)] = 0
    THEN Shortest(signed, SubSeq(groups, 1, Len(groups) - 1))
    ELSE groups

\* The numeric conversion after the reader.
DecodeIntegerFrom(int, as_64) ==
    IF ~as_64.ok THEN as_64
    ELSE IF ~TryFromAs64(int, as_64.val) THEN ReadErr(Leb128Overflow, as_64.rest)
    ELSE Ok(Shortest(int.signed, as_64.val), as_64.rest)

\* A decoder whose reader takes one byte more than LIMIT.
DecodeIntegerWide(int, s) ==
    DecodeIntegerFrom(int, LebRead(int.signed, s, LIMIT(int) + 1, <<>>))

\* Decode for $ty
DecodeInteger(int, s) ==
    DecodeIntegerFrom(int, LebRead(int.signed, s, LIMIT(int), <<>>))

\* Encode for $ty: leb128::write writes the groups of the shortest encoding,
\* each but the last with the continuation bit.
EncodeInteger(v) == [i \in 1..Len(v) |-> IF i < Len(v) THEN v[i] + 128 ELSE v[i]]

\* The bytes that end a number, and the bytes that go on.
LastBytes == {0, 1, 2, 7, 8, 15, 16, 63, 64, 119, 120, 127, 130, 248}

PadBytes == {128, 255}

\* Encodings: bytes that go on, one byte more, and what follows the number.
IntegerInputs ==
    {<<>>} \cup
    {Repeat(<<c>>, n) \o <<a>> \o u :
        c \in PadBytes, n \in 0..MaxPad, a \in LastBytes, u \in {<<>>, <<0>>, <<5, 6>>}}

\* T::decode(&mut input) for an integer type.
IntegerDecode ==
    /\ pc = "integer"
    /\ result' = DecodeInteger(call_ty, input)
    /\ pc' = "integer_decoded"
    /\ UNCHANGED <<decodeVars, lazy, r, w>>

\* value.encode(&mut w) of the integer decoded.
IntegerEncode ==
    /\ pc = "integer_decoded"
    /\ result.ok
    /\ w' = EncodeInteger(result.val)
    /\ pc' = "integer_encoded"
    /\ UNCHANGED <<decodeVars, lazy, r, result>>

InitInteger ==
    /\ pc = "integer"
    /\ exception_handling = TRUE
    /\ stage = 1
    /\ r = <<>>
    /\ w = <<>>
    /\ module = EmptyModule
    /\ orig = EmptyModule
    /\ last_kind = "Custom"
    /\ pos = 1
    /\ result = NoResult
    /\ last_op = NoOp
    /\ visited = FALSE
    /\ lazy = from_raw(<<>>)
    /\ lazy_ty = T("String")
    /\ other = from_raw(<<>>)
    /\ decodes = 0
    /\ threads = NoThreads
    /\ call = NoCall
    /\ \E i \in 1..Len(IntegerTypes) : call_ty = IntegerTypes[i]
    /\ input \in IntegerInputs

NextInteger ==
    \/ IntegerDecode
    \/ IntegerEncode

SpecInteger == InitInteger /\ [][NextInteger]_vars

\* The bytes of the input up to the first one without the continuation bit,
\* of the first n ones: the encoding of a number if there is one.
Encoding(s, n) ==
    IF \E k \in 1..Min(n, Len(s)) : s[k] < 128
    THEN SubSeq(s, 1, CHOOSE k \in 1..Min(n, Len(s)) :
                          s[k] < 128 /\ \A j \in 1..(k - 1) : s[j] >= 128)
    ELSE <<>>

\* The groups that an encoding holds.
GroupsOf(e) == [i \in 1..Len(e) |-> e[i] % 128]

\* What the decoder of an integer type owes for a bound of n bytes.
BoundedLeb128(n) ==
    LET e == Encoding(input, n)
    IN  /\ Len(input) - Len(result.rest) <= n
        /\ (e # <<>> /\ TryFromAs64(call_ty, GroupsOf(e))) =>
              /\ result.ok
              /\ result.val = Shortest(call_ty.signed, GroupsOf(e))
              /\ result.rest = Drop(input, Len(e))
        /\ (e # <<>> /\ ~TryFromAs64(call_ty, GroupsOf(e))) =>
              (~result.ok /\ result.err = Leb128Overflow)
        /\ e = <<>> => ~result.ok

\* decode(encode(v)) == v
IntegerRoundTrip ==
    pc = "integer_encoded" =>
        /\ DecodeInteger(call_ty, w).ok
        /\ DecodeInteger(call_ty, w).val = result.val
        /\ DecodeInteger(call_ty, w).rest = <<>>

(***************************************************************************)
(* C24, as the spec states it.  Decode of u32, i32, u64 and i64 consumes   *)
(* at most ceil(bits/7)+1 bytes, returns the value of every encoding       *)
(* within that bound whose value fits the width, fails with a Leb128       *)
(* overflow when the value exceeds the width, and decode(encode(v)) is v.  *)
(***************************************************************************)
C24_BoundedLeb128 ==
    /\ pc = "integer_decoded" => BoundedLeb128((call_ty.bits + 6) \div 7 + 1)
    /\ IntegerRoundTrip

(***************************************************************************)
(* C24, amended.  The bound is LIMIT = floor(bits/7)+1 bytes, 5 for 32     *)
(* bits and 10 for 64: decode consumes no more, returns the value of every *)
(* encoding within LIMIT bytes whose value fits the width, fails with a    *)
(* Leb128 overflow when the value of such an encoding exceeds the width,   *)
(* and decode(encode(v)) is v.                                             *)
(***************************************************************************)
C24_BoundedByLimit ==
    /\ pc = "integer_decoded" => BoundedLeb128(LIMIT(call_ty))
    /\ IntegerRoundTrip

\* A u32 of five bytes was decoded and encoded again.
C24_Witness ==
    /\ pc = "integer_encoded" /\ call_ty.name = "u32"
    /\ Len(result.val) = 5 /\ Len(input) = 5

\* An i64 of ten bytes overflows.
C24_WitnessOverflow ==
    /\ pc = "integer_decoded" /\ call_ty.name = "i64"
    /\ Len(Encoding(input, 10)) = 10
    /\ ~result.ok /\ result.err = Leb128Overflow

\* A number that fits and is padded to one byte more than LIMIT.
C24_WitnessLong ==
    /\ pc = "integer_decoded" /\ call_ty.name = "u32"
    /\ input = <<128, 128, 128, 128, 128, 0>>
    /\ ~result.ok

(***************************************************************************)
(* A LazyMut in the hands of a caller: the transform is that of Blob<T>,   *)
(* decode_raw.  lazy holds the LazyMut, lazy_ty the type of its output.    *)
(***************************************************************************)
\* LazyMut::new_with_output_unchecked
new_with_output_unchecked(in, out) == [input |-> Some(in), output |-> Some(out)]

\* LazyMut::set_output
set_output(lm, output) == [input |-> None, output |-> Some(output)]

\* LazyMut::output_opt_mut: the input is given up, whether or not there is
\* an output to borrow.
output_opt_mut(lm) == [lm EXCEPT !.input = None]

\* What try_output leaves in the OnceCell.
try_output_memo(ty, lm) ==
    IF ~IsSome(lm.output) /\ decode_raw(ty, Unwrap(lm.input)).ok
    THEN [lm EXCEPT !.output = Some(decode_raw(ty, Unwrap(lm.input)).val)]
    ELSE lm

\* unreachable(): a panic with debug assertions, undefined without them.
Unreachable == {"panicked", "undefined"}

\* Neither the input nor the output is there.
Hollow(lm) == ~IsSome(lm.input) /\ ~IsSome(lm.output)

LazyMutOp(op) == [NoOp EXCEPT !.op = op]

\* lazy.input_res()
LazyMutInputRes ==
    /\ pc = "lazy_mut"
    /\ IF Hollow(lazy)
       THEN pc' \in Unreachable /\ UNCHANGED result
       ELSE /\ result' = IF IsSome(lazy.input) THEN Ok(Unwrap(lazy.input), <<>>)
                         ELSE [ok |-> FALSE, val |-> Unwrap(lazy.output), rest |-> <<>>,
                               err |-> NoError]
            /\ UNCHANGED pc
    /\ last_op' = LazyMutOp("input_res")
    /\ UNCHANGED <<exception_handling, stage, input, r, module, orig, last_kind, pos,
                   visited, w, lazy, other, decodes, callVars>>

\* lazy.set_output(output)
LazyMutSetOutput ==
    /\ pc = "lazy_mut"
    /\ \E i \in 1..Len(NewContents(lazy_ty)) :
          lazy' = set_output(lazy, NewContents(lazy_ty)[i])
    /\ result' = NoResult
    /\ last_op' = LazyMutOp("set_output")
    /\ UNCHANGED <<moduleVars, w, other, decodes, callVars>>

\* lazy.try_output()
LazyMutTryOutput ==
    /\ pc = "lazy_mut"
    /\ IF Hollow(lazy)
       THEN pc' \in Unreachable /\ UNCHANGED <<result, lazy>>
       ELSE /\ result' = try_output(lazy_ty, lazy)
            /\ lazy' = try_output_memo(lazy_ty, lazy)
            /\ UNCHANGED pc
    /\ last_op' = LazyMutOp("try_output")
    /\ UNCHANGED <<exception_handling, stage, input, r, module, orig, last_kind, pos,
                   visited, w, other, decodes, callVars>>

\* lazy.output_opt_mut()
LazyMutOutputOptMut ==
    /\ pc = "lazy_mut"
    /\ lazy' = output_opt_mut(lazy)
    /\ result' = IF IsSome(lazy.output) THEN Ok(Unwrap(lazy.output), <<>>) ELSE NoResult
    /\ last_op' = LazyMutOp("output_opt_mut")
    /\ UNCHANGED <<moduleVars, w, other, decodes, callVars>>

\* lazy.try_output_mut(): try_output()?, then output_opt_mut().
LazyMutTryOutputMut ==
    /\ pc = "lazy_mut"
    /\ IF Hollow(lazy)
       THEN pc' \in Unreachable /\ UNCHANGED <<result, lazy>>
       ELSE /\ result' = try_output(lazy_ty, lazy)
            /\ lazy' = IF try_output(lazy_ty, lazy).ok
                       THEN output_opt_mut(try_output_memo(lazy_ty, lazy))
                       ELSE lazy
            /\ UNCHANGED pc
    /\ last_op' = LazyMutOp("try_output_mut")
    /\ UNCHANGED <<exception_handling, stage, input, r, module, orig, last_kind, pos,
                   visited, w, other, decodes, callVars>>

\* lazy.try_into_output(): the LazyMut is consumed when the output is there.
LazyMutTryIntoOutput ==
    /\ pc = "lazy_mut"
    /\ IF Hollow(lazy)
       THEN pc' \in Unreachable /\ UNCHANGED <<result, lazy>>
       ELSE /\ result' = try_output(lazy_ty, lazy)
            /\ lazy' = try_output_memo(lazy_ty, lazy)
            /\ pc' = IF try_output(lazy_ty, lazy).ok THEN "consumed" ELSE "lazy_mut"
    /\ last_op' = LazyMutOp("try_into_output")
    /\ UNCHANGED <<exception_handling, stage, input, r, module, orig, last_kind, pos,
                   visited, w, other, decodes, callVars>>

\* LazyMut::new(input) and LazyMut::new_from_output(output).
InitLazyMut ==
    /\ exception_handling = TRUE
    /\ pc = "lazy_mut"
    /\ stage = 1
    /\ input = <<>>
    /\ r = <<>>
    /\ w = <<>>
    /\ module = EmptyModule
    /\ orig = EmptyModule
    /\ last_kind = "Custom"
    /\ pos = 1
    /\ result = NoResult
    /\ last_op = NoOp
    /\ visited = FALSE
    /\ other = from_raw(<<>>)
    /\ decodes = 0
    /\ threads = NoThreads
    /\ call_ty = T("String")
    /\ call = NoCall
    /\ \E i \in 1..Len(LazyTypes) :
          /\ lazy_ty = LazyTypes[i]
          /\ \/ \E j \in 1..Len(PairRaws(lazy_ty)) : lazy = LazyMutNew(PairRaws(lazy_ty)[j])
             \/ \E j \in 1..Len(NewContents(lazy_ty)) :
                    lazy = new_from_output(NewContents(lazy_ty)[j])

NextLazyMut ==
    \/ LazyMutInputRes
    \/ LazyMutSetOutput
    \/ LazyMutTryOutput
    \/ LazyMutOutputOptMut
    \/ LazyMutTryOutputMut
    \/ LazyMutTryIntoOutput

SpecLazyMut == InitLazyMut /\ [][NextLazyMut]_vars

(***************************************************************************)
(* C30.  A LazyMut always holds something: after any sequence of new,      *)
(* new_from_output, set_output, try_output, try_output_mut, output_opt_mut *)
(* and try_into_output the input or the output is there, so that input_res *)
(* and try_output never reach unreachable(); and when both are there the   *)
(* output is the transform of the input.                                   *)
(***************************************************************************)
C30_LazyMutHoldsSomething ==
    /\ ~Hollow(lazy)
    /\ pc \notin Unreachable
    /\ (IsSome(lazy.input) /\ IsSome(lazy.output)) =>
          /\ decode_raw(lazy_ty, Unwrap(lazy.input)).ok
          /\ decode_raw(lazy_ty, Unwrap(lazy.input)).val = Unwrap(lazy.output)

\* The parts of C30 on their own.
C30_NeverHollow == ~Hollow(lazy)

C30_NeverUnreachable == pc \notin Unreachable

C30_OutputOfInput ==
    (IsSome(lazy.input) /\ IsSome(lazy.output)) =>
        /\ decode_raw(lazy_ty, Unwrap(lazy.input)).ok
        /\ decode_raw(lazy_ty, Unwrap(lazy.input)).val = Unwrap(lazy.output)

\* try_output has decoded the input and keeps both.
C30_WitnessBoth == pc = "lazy_mut" /\ IsSome(lazy.input) /\ IsSome(lazy.output)

(***************************************************************************)
(* The decoding loops, one iteration at a time: the loop over the sections *)
(* of a module (DecodeMagic, DecodeSection and DecodeEnd above), the loop  *)
(* over the instructions of an expression, and the loop over the items of  *)
(* a counted list.  r is the reader, call holds the locals of the loop:    *)
(* the instruction loop keeps one counter and the instructions decoded,    *)
(* whatever the depth of the blocks.                                       *)
(***************************************************************************)
MaxItems == 4

\* A depth counter that does not count the blocks.
NextDepthFlat(depth, op_code) == IF op_code = OP_CODE_END THEN None ELSE Some(depth)

\* The match on op_code of Decode for Vec<Instruction>: the depth after the
\* opcode, or None where the loop breaks.
NextDepth(depth, op_code) ==
    IF op_code \in {OP_CODE_BLOCK_START, OP_CODE_LOOP_START, OP_CODE_IF_START}
    THEN Some(depth + 1)
    ELSE IF op_code = OP_CODE_END
    THEN IF depth = 0 THEN None ELSE Some(depth - 1)
    ELSE Some(depth)

\* The Err of a decoder of lists: no list is returned.
Failed(res) == [res EXCEPT !.val = <<>>]

\* What a call of decode_iter_next returns, and the count it leaves.
IterNext(res, count) == [res |-> res, count |-> count]

\* The item of a count that is not used up.
DecodeCounted(ty, count, s) ==
    IF count = 0 THEN IterNext(Ok(None, s), Some(0))
    ELSE Let(Decode(ty, s), LAMBDA item :
             IterNext(IF item.ok THEN Ok(Some(item.val), item.rest) ELSE item,
                      Some(count - 1)))

\* An iterator that counts the items of a short list without reading them.
DecodeIterNextEmpty(ty, count, s) ==
    IF IsSome(count) /\ Unwrap(count) > MaxItems THEN DecodeCounted(ty, Unwrap(count), s)
    ELSE IF IsSome(count)
    THEN IterNext(Ok(IF Unwrap(count) = 0 THEN None ELSE Some(0), s),
                  Some(IF Unwrap(count) = 0 THEN 0 ELSE Unwrap(count) - 1))
    ELSE Let(DecodeU32(s), LAMBDA first :
             IF ~first.ok THEN IterNext(first, None)
             ELSE DecodeCounted(ty, first.val, first.rest))

\* DecodeAsIter::decode_iter_next of a countable type: the count is decoded
\* on the first call; None when it is used up, or else the next item.
DecodeIterNext(ty, count, s) ==
    IF IsSome(count) THEN DecodeCounted(ty, Unwrap(count), s)
    ELSE Let(DecodeU32(s), LAMBDA first :
             IF ~first.ok THEN IterNext(first, None)
             ELSE DecodeCounted(ty, first.val, first.rest))

\* One call of decode_iter_next by collect().
CountedNext ==
    /\ pc = "counted_loop"
    /\ \E next \in {DecodeIterNext(call_ty.of, call.count, r)} :
          IF ~next.res.ok
          THEN /\ pc' = "counted_failed"
               /\ result' = Failed(next.res)
               /\ call' = [call EXCEPT !.count = next.count]
               /\ UNCHANGED r
          ELSE IF ~IsSome(next.res.val)
          THEN /\ pc' = "counted_done"
               /\ result' = Ok(call.items, next.res.rest)
               /\ r' = next.res.rest
               /\ call' = [call EXCEPT !.count = next.count]
          ELSE /\ call' = [call EXCEPT !.count = next.count,
                                       !.items = Append(@, Unwrap(next.res.val))]
               /\ r' = next.res.rest
               /\ UNCHANGED <<result, pc>>
    /\ UNCHANGED <<exception_handling, stage, input, module, orig, last_kind, pos, last_op,
                   visited, lazy, lazy_ty, other, decodes, threads, call_ty, w>>

\* One iteration of the loop of Decode for Vec<Instruction>.
ExprIter ==
    /\ pc = "expr_loop"
    /\ \E op_code \in {DecodeU8(r)} :
          IF ~op_code.ok
          THEN /\ pc' = "expr_failed"
               /\ result' = Failed(op_code)
               /\ UNCHANGED <<r, call>>
          ELSE IF ~IsSome(NextDepth(call.depth, op_code.val))
          THEN /\ pc' = "expr_done"
               /\ result' = Ok(call.res, op_code.rest)
               /\ r' = op_code.rest
               /\ UNCHANGED call
          ELSE \E instr \in {DecodeInstructionWith(op_code.val, op_code.rest)} :
                  IF ~instr.ok
                  THEN /\ pc' = "expr_failed"
                       /\ result' = Failed(instr)
                       /\ call' = [call EXCEPT
                                       !.depth = Unwrap(NextDepth(call.depth, op_code.val))]
                       /\ r' = op_code.rest
                  ELSE /\ call' = [call EXCEPT
                                       !.depth = Unwrap(NextDepth(call.depth, op_code.val)),
                                       !.res = Append(@, instr.val)]
                       /\ r' = instr.rest
                       /\ UNCHANGED <<result, pc>>
    /\ UNCHANGED <<exception_handling, stage, input, module, orig, last_kind, pos, last_op,
                   visited, lazy, lazy_ty, other, decodes, threads, call_ty, w>>

\* expr.encode(&mut w) of the expression decoded.
ExprEncode ==
    /\ pc = "expr_done"
    /\ w' = EncodeExpression(result.val)
    /\ pc' = "expr_encoded"
    /\ UNCHANGED <<decodeVars, lazy, r, result>>

\* The item types of the counted lists, and their bytes.
CountedTypes == <<TVec(T("u32")), TVec(T("Locals")), TVec(T("bool"))>>

CountedBytes == {0, 1, 2, 3, 127, 128}

InitLoops ==
    /\ exception_handling = TRUE
    /\ stage = 1
    /\ w = <<>>
    /\ module = EmptyModule
    /\ orig = EmptyModule
    /\ last_kind = "Custom"
    /\ pos = 1
    /\ last_op = NoOp
    /\ visited = FALSE
    /\ lazy = from_raw(<<>>)
    /\ lazy_ty = T("String")
    /\ other = from_raw(<<>>)
    /\ decodes = 0
    /\ threads = NoThreads
    /\ \/ /\ pc = "decode"
          /\ call_ty = T("Module")
          /\ call = NoCall
          /\ input \in CodecInputs
       \/ /\ pc = "expr_loop"
          /\ call_ty = T("Expression")
          /\ call = [op |-> "decode", depth |-> 0, res |-> <<>>]
          /\ input \in DecodeInputs(T("Expression"))
       \/ /\ pc = "counted_loop"
          /\ \E i \in 1..Len(CountedTypes) : call_ty = CountedTypes[i]
          /\ call = [op |-> "decode", count |-> None, items |-> <<>>]
          /\ input \in SeqsUpTo(CountedBytes, MaxItems)
    /\ r = input
    /\ result = IF pc = "decode" THEN NoResult ELSE Ok(<<>>, <<>>)

NextLoops ==
    \/ DecodeMagic
    \/ DecodeSection
    \/ DecodeEnd
    \/ ExprIter
    \/ ExprEncode
    \/ CountedNext

SpecLoops == InitLoops /\ [][NextLoops]_vars

\* The loops run on: a call that can take a step takes it.
SpecLoopsFair == SpecLoops /\ WF_<<pc, r, call>>(NextLoops)

\* A loop is running; the call has returned.
InLoop(at) == at \in {"decode_sections", "expr_loop", "counted_loop"}

Returned ==
    pc \in {"ready", "decode_failed", "expr_done", "expr_failed", "expr_encoded",
            "counted_done", "counted_failed"}

(***************************************************************************)
(* C25.  Every iteration of the section loop, of the instruction loop and  *)
(* of the loop over a counted list consumes at least one byte or ends the  *)
(* loop, so that decoding a finite input returns Ok or Err in the end.     *)
(***************************************************************************)
C25_IterationStep == InLoop(pc) => (Len(r') < Len(r) \/ ~InLoop(pc'))

C25_ForwardProgress == /\ [][C25_IterationStep]_<<pc, r, call>>
                       /\ <>Returned

\* Module::decode_from returned Ok after two iterations of its loop.
C25_Witness == pc = "ready" /\ call_ty = T("Module") /\ Len(module.sections) = 2

\* The instruction loop and the counted loop returned after three iterations.
C25_WitnessExpr == pc = "expr_done" /\ Len(result.val) = 3

C25_WitnessCounted == pc = "counted_done" /\ Len(result.val) = 3

(***************************************************************************)
(* C28.  Decoded expressions are balanced: at every iteration of the loop  *)
(* the depth counter is the number of BLOCK, LOOP and IF stored minus the  *)
(* number of END stored and is not negative; an expression decoded has as  *)
(* many END as openers, no prefix of it has more END than openers, and     *)
(* encoding it and decoding the bytes gives the same expression.           *)
(***************************************************************************)
C28_BalancedExpressions ==
    /\ pc = "expr_loop" =>
          /\ call.depth = DepthAfter(call.res, Len(call.res))
          /\ call.depth >= 0
    /\ (pc \in {"expr_done", "expr_encoded"}) =>
          /\ DepthAfter(result.val, Len(result.val)) = 0
          /\ \A i \in 1..Len(result.val) : DepthAfter(result.val, i) >= 0
    /\ pc = "expr_encoded" =>
          /\ DecodeExpression(w).ok
          /\ DecodeExpression(w).val = result.val
          /\ DecodeExpression(w).rest = <<>>

\* BLOCK, BLOCK, END, END was decoded and encoded.
C28_Witness ==
    /\ pc = "expr_encoded"
    /\ Len(result.val) = 4
    /\ IsOpener(result.val[1]) /\ IsOpener(result.val[2])
    /\ result.val[3].op = "End" /\ result.val[4].op = "End"

\* The loop is two blocks deep.
C28_WitnessDepth == pc = "expr_loop" /\ call.depth = 2

=============================================================================
